---- MODULE Spec2Model ----
(***************************************************************************)
(* Edge video pipeline of SurveiLens: the bounded FrameBuffer queue, the   *)
(* RtspStreamer capture thread, and the pop/infer/track/publish worker of  *)
(* ServerApp and of the edge-node main loop.                               *)
(*                                                                         *)
(* Every action that reads or writes queue_ or stopped_ is one critical    *)
(* section under FrameBuffer::mu_, so it is one atomic step.  A thread     *)
(* waiting on a condition variable is a thread whose pc is push_wait       *)
(* (cv_full_) or pop_wait (cv_empty_); a woken thread re-acquires mu_ and  *)
(* re-evaluates its wait predicate, which is the *_enter step again.       *)
(***************************************************************************)
EXTENDS Integers, Sequences, FiniteSets, TLC

\* ---------------------------------------------------------------- bounds
\* push calls issued by the free threads of the queue specification
MaxPush == 3
\* capacities a FrameBuffer is constructed with in the queue specification
Capacities == {1, 2}

\* ------------------------------------------------------------- constants
\* FrameBuffer(size_t max_items = 4), and the 4 both pipelines pass
DefaultCapacity == 4

\* free threads of the queue specification: producers call push, consumers
\* call pop, the stopper calls stop
Producers == {"p1", "p2"}
Consumers == {"c1", "c2"}
Stoppers == {"s1"}
QThreads == Producers \cup Consumers \cup Stoppers
\* threads of the pipelines
PipeThreads == {"ctl", "cap", "wrk"}
Threads == QThreads \cup PipeThreads

NoItem == 0
NoRet == [op |-> "none", ok |-> FALSE, item |-> NoItem]

VARIABLES
    queue_,        \* FrameBuffer::queue_
    stopped_,      \* FrameBuffer::stopped_
    max_items_,    \* FrameBuffer::max_items_
    pc,            \* per thread: position inside a FrameBuffer call, or "none"
    arg,           \* per thread: the item of the push call in progress
    ret,           \* per thread: result of the last push/pop (ok, out)
    nitems,        \* items handed to push so far (item ids are 1..nitems)
    enq,           \* history: items in the order queue_.push stored them
    deq,           \* history: items in the order pop handed them out
    stop_returned, \* history: some stop() call has returned
    atStop,        \* history: queue_ when stopped_ was first set
    enqAtStop,     \* history: Len(enq) when stopped_ was first set
    stopWoken,     \* history: threads waiting in pop on the empty queue when
                   \* stopped_ was first set, until their pop returns
    pop_failed,    \* history: some pop has returned false
    restopped,     \* history: stop() has run on the already stopped queue
    loc,           \* per pipeline thread: position in its own code
    pipe_running_, \* ServerApp::pipe_running_ (plain bool)
    running_,      \* RtspStreamer::running_ (atomic)
    built,         \* ServerApp: buf_, streamer_, infer_, tracker_, publisher_ are set
    cap_joined,    \* RtspStreamer::worker_ has been joined
    wrk_joined,    \* ServerApp::worker_ has been joined
    racy,          \* the worker may still read the old pipe_running_ (unsynchronised read)
    published,     \* history: frames handed to publish, in order
    nstarts,       \* pipelines built so far
    crashed,       \* std::terminate was called
    readfails,     \* history: failed reads of the capture loop since the last frame
    last_op,       \* history: the last call the control layer made on ServerApp
    proc,          \* the program that runs: "edge" (edge-node) or "core" (video-core)
    running,       \* VideoPipeline::Impl::running (atomic)
    th,            \* VideoPipeline::Impl::th: "none" (not joinable) or the position
                   \* of the thread in Impl::loop
    frame_id,      \* frame_id of Impl::loop
    vloc,          \* position of the caller inside VideoPipeline::stop
    vstarts,       \* loop threads launched so far
    vlast_op,      \* history: the last call made on the VideoPipeline
    file,          \* the alert file at EventPublisher::path_, as a sequence of tokens
    file0,         \* history: the alert file when the publisher was constructed
    writable,      \* the alert file can be opened for appending
    pub_mu_,       \* EventPublisher::mu_: the thread that holds it, or "free"
    ppc,           \* per publishing thread: position inside publish
    pframe,        \* per publishing thread: the FrameResult of the call in progress
    pline,         \* per publishing thread: oss.str()
    done,          \* history: the publish calls that have returned, in that order
    npub,          \* publish calls made so far
    out_dets,      \* InferenceEngine::run: output.dets
    out_level,     \* InferenceEngine::run: output.frame_level
    iloc,          \* position inside InferenceEngine::run
    lbl,           \* level_for_label: the label passed in
    lbl_level,     \* level_for_label: the level returned, "none" before the call
    with_ort,      \* the build defines USE_ONNXRUNTIME
    ort_loads,     \* ONNX Runtime can load the model at model_path
    cv_loads,      \* cv::dnn::readNet can load the model at model_path
    use_ort_,      \* InferenceEngine::use_ort_
    ready_,        \* InferenceEngine::ready_
    handed,        \* history: the FrameResults the worker handed to the tracker
                   \* and the publisher, in order
    cloc,          \* position inside the InferenceEngine constructor
    use_onnxruntime, \* constructor argument: the preferred backend is ONNX Runtime
    names_file,    \* the file at class_names_path: its lines, NoPath or Unreadable
    class_names_,  \* InferenceEngine::class_names_
    best_cls,      \* run_opencv: best_cls of the candidate whose label was built, -1 before
    ev,            \* process_frame: the FrameEvent ev
    fargs,         \* process_frame: the thresholds passed in
    floc,          \* position inside a process_frame call made on its own
    zones,         \* PostProcessor::Impl::zones
    zwriting,      \* update_policy is assigning zones
    thresh,        \* VideoPipeline::Impl: obj_thresh, act_thresh, risk_med, risk_high (atomics)
    events,        \* history: the FrameEvents handed to events.push, in order
    uloc,          \* position of the caller inside VideoPipeline::update_params
    uarg,          \* the arguments of the update_params call in progress
    nupd,          \* update_params calls made so far
    applied,       \* history: the arguments of the update_params calls that returned
    fstart,        \* history: the number of update_params calls that had returned
                   \* when the loop read the frame it is processing
    cfg_,          \* ServerApp::cfg_, the AppConfig parse_args returns
    req,           \* the arguments the control layer passes to start_pipeline
    active,        \* history: the source, weights and threshold the components of
                   \* the pipeline were constructed with
    pipe_started_, \* ServerApp::pipe_started_
    now,           \* cv::getTickCount() / cv::getTickFrequency()
    st,            \* the PipelineStatus the last status() call returned
    environ,       \* the process environment: the value of each variable, or Unset
    argv,          \* the command line after argv[0]
    aloc,          \* parse_args: "start" before the call, "returned" or "exited" after
    vcall,         \* position of each caller inside VideoPipeline::start or stop
    params,        \* the CameraParams VideoPipeline was constructed with
    cand,          \* run_opencv: the candidate row of the prediction
    conf_threshold_, \* InferenceEngine::conf_threshold_, in 1/10000
    kept           \* run_opencv: best_score, best_cls and whether a detection was emitted

qvars == <<queue_, stopped_, max_items_>>
hvars == <<enq, deq, stop_returned, atStop, enqAtStop, stopWoken, pop_failed, restopped>>
pvars == <<loc, pipe_running_, running_, built, cap_joined, wrk_joined, racy,
           published, nstarts, crashed>>
lvars == <<readfails, last_op>>
vvars == <<running, th, frame_id, vloc, vstarts, vlast_op>>
\* what the edge-node pipeline and the queue never touch
evars == <<file, file0, writable, pub_mu_, ppc, pframe, pline, done, npub>>
ivars == <<out_dets, out_level, iloc>>
\* what only the specifications of single operations touch
xvars == <<lbl, lbl_level, cloc, use_onnxruntime, names_file, class_names_, best_cls>>
\* the model files and the InferenceEngine of the pipeline
gvars == <<with_ort, ort_loads, cv_loads, use_ort_, ready_, handed>>
\* PostProcessor and the parameters of VideoPipeline (video-core)
kvars == <<ev, fargs, floc, zones, zwriting, thresh, events, uloc, uarg, nupd, applied, fstart>>
\* the configuration of the edge-node program and the status of its pipeline
svars == <<cfg_, req, active, pipe_started_, now, st, environ, argv, aloc>>
\* callers of VideoPipeline, its construction parameters, one candidate row
wvars == <<vcall, params, cand, conf_threshold_, kept>>
ovars == <<proc, vvars, evars, ivars, xvars, gvars, kvars, svars, wvars, wvars>>
vars == <<queue_, stopped_, max_items_, pc, arg, ret, nitems,
          enq, deq, stop_returned, atStop, enqAtStop, stopWoken, pop_failed, restopped,
          loc, pipe_running_, running_, built, cap_joined, wrk_joined, racy,
          published, nstarts, crashed, readfails, last_op,
          proc, running, th, frame_id, vloc, vstarts, vlast_op,
          file, file0, writable, pub_mu_, ppc, pframe, pline, done, npub,
          out_dets, out_level, iloc,
          lbl, lbl_level, cloc, use_onnxruntime, names_file, class_names_, best_cls,
          with_ort, ort_loads, cv_loads, use_ort_, ready_, handed,
          ev, fargs, floc, zones, zwriting, thresh, events, uloc, uarg, nupd, applied, fstart,
          cfg_, req, active, pipe_started_, now, st, environ, argv, aloc,
          vcall, params, cand, conf_threshold_, kept>>

Range(s) == {s[i] : i \in 1..Len(s)}

\* the pipeline threads keep what pop returned (ok, out); the free threads of
\* the queue specification discard it on return
SetRet(t, v) == ret' = IF t \in PipeThreads THEN [ret EXCEPT ![t] = v] ELSE ret

\* ------------------------------------------------------------ FrameBuffer
\* faulty variant of PushPred: off by one
PushPredLe == Len(queue_) <= max_items_
\* wait predicate of push: queue_.size() < max_items_
PushPred == Len(queue_) < max_items_

\* faulty variant of PopPred: stop is not looked at
PopPredNoStop == queue_ # <<>>
\* wait predicate of pop: !queue_.empty() || stopped_
PopPred == queue_ # <<>> \/ stopped_

\* faulty variant of PopFails: stopped queue reports not-ok with items left
PopFailsStopped == stopped_
\* if (stopped_ && queue_.empty()) return false;
PopFails == stopped_ /\ queue_ = <<>>

\* faulty variant of Front: the newest item
FrontLast(q) == q[Len(q)]
\* queue_.front()
Front(q) == Head(q)

\* faulty variant of PopFront: the item stays queued
PopFrontKeep(q) == q
\* queue_.pop()
PopFront(q) == Tail(q)

\* queue_.push(item)
PushBack(q, x) == Append(q, x)

CvFullWaiters == {w \in Threads : pc[w] = "push_wait"}
CvEmptyWaiters == {w \in Threads : pc[w] = "pop_wait"}

\* cv.notify_one() by thread t, which then continues at `next`: one waiter,
\* if there is any, leaves the wait and goes on to re-check its predicate.
NotifyOne(t, waiters, woken, next) ==
    IF waiters = {}
    THEN pc' = [pc EXCEPT ![t] = next]
    ELSE \E w \in waiters : pc' = [pc EXCEPT ![t] = next, ![w] = woken]

\* cv.notify_all() by thread t, which then continues at `next`
NotifyAll(t, waiters, woken, next) ==
    pc' = [x \in Threads |-> IF x = t THEN next
                             ELSE IF x \in waiters THEN woken ELSE pc[x]]

\* faulty variant of PushEnter: a full queue drops the item instead of waiting
PushEnterDrops(t) ==
    /\ pc[t] = "push_enter"
    /\ IF PushPred
       THEN /\ queue_' = PushBack(queue_, arg[t])
            /\ enq' = Append(enq, arg[t])
            /\ pc' = [pc EXCEPT ![t] = "push_notify"]
       ELSE /\ pc' = [pc EXCEPT ![t] = "none"]
            /\ UNCHANGED <<queue_, enq>>
    /\ UNCHANGED <<stopped_, max_items_, arg, ret, deq, stop_returned, atStop, enqAtStop,
                   stopWoken, pop_failed, restopped>>
\* push, lines 216-218: lock, wait for room, queue_.push(item)
PushEnter(t) ==
    /\ pc[t] = "push_enter"
    /\ IF PushPred
       THEN /\ queue_' = PushBack(queue_, arg[t])
            /\ enq' = Append(enq, arg[t])
            /\ pc' = [pc EXCEPT ![t] = "push_notify"]
       ELSE /\ pc' = [pc EXCEPT ![t] = "push_wait"]
            /\ UNCHANGED <<queue_, enq>>
    /\ UNCHANGED <<stopped_, max_items_, arg, ret, deq, stop_returned, atStop, enqAtStop,
                   stopWoken, pop_failed, restopped>>

\* faulty variant of PushNotify: push returns without notifying
PushNotifyNone(t) ==
    /\ pc[t] = "push_notify"
    /\ pc' = [pc EXCEPT ![t] = "none"]
    /\ UNCHANGED <<qvars, arg, ret, hvars>>
\* push, lines 219-221: unlock, cv_empty_.notify_one(), return
PushNotify(t) ==
    /\ pc[t] = "push_notify"
    /\ NotifyOne(t, CvEmptyWaiters, "pop_enter", "none")
    /\ UNCHANGED <<qvars, arg, ret, hvars>>

\* pop, lines 224-228: lock, wait for an item or stop, hand out the front
PopEnter(t) ==
    /\ pc[t] = "pop_enter"
    /\ IF ~PopPred
       THEN /\ pc' = [pc EXCEPT ![t] = "pop_wait"]
            /\ UNCHANGED <<queue_, deq, ret, stopWoken, pop_failed>>
       ELSE IF PopFails
       THEN /\ pc' = [pc EXCEPT ![t] = "none"]
            /\ SetRet(t, [op |-> "pop", ok |-> FALSE, item |-> NoItem])
            /\ pop_failed' = TRUE
            /\ stopWoken' = stopWoken \ {t}
            /\ UNCHANGED <<queue_, deq>>
       ELSE /\ SetRet(t, [op |-> "pop", ok |-> TRUE, item |-> Front(queue_)])
            /\ deq' = Append(deq, Front(queue_))
            /\ queue_' = PopFront(queue_)
            /\ stopWoken' = stopWoken \ {t}
            /\ pc' = [pc EXCEPT ![t] = "pop_notify"]
            /\ UNCHANGED pop_failed
    /\ UNCHANGED <<stopped_, max_items_, arg, enq, stop_returned, atStop, enqAtStop, restopped>>

\* pop, lines 229-231: unlock, cv_full_.notify_one(), return true
PopNotify(t) ==
    /\ pc[t] = "pop_notify"
    /\ NotifyOne(t, CvFullWaiters, "push_enter", "none")
    /\ UNCHANGED <<qvars, arg, ret, hvars>>

\* what StopEnter records the first time stopped_ is set
StopHistory ==
    /\ atStop' = IF stopped_ THEN atStop ELSE queue_
    /\ enqAtStop' = IF stopped_ THEN enqAtStop ELSE Len(enq)
    /\ stopWoken' = IF stopped_ \/ queue_ # <<>> THEN stopWoken
                    ELSE {w \in Threads : pc[w] = "pop_wait"}
    /\ restopped' = (restopped \/ stopped_)

\* faulty variant of StopEnter: the buffered items are thrown away
StopEnterClears(t) ==
    /\ pc[t] = "stop_enter"
    /\ stopped_' = TRUE
    /\ queue_' = <<>>
    /\ StopHistory
    /\ pc' = [pc EXCEPT ![t] = "stop_notify_empty"]
    /\ UNCHANGED <<max_items_, arg, ret, enq, deq, stop_returned, pop_failed>>
\* faulty variant of StopEnter: the flag is flipped
StopEnterToggles(t) ==
    /\ pc[t] = "stop_enter"
    /\ stopped_' = ~stopped_
    /\ StopHistory
    /\ pc' = [pc EXCEPT ![t] = "stop_notify_empty"]
    /\ UNCHANGED <<queue_, max_items_, arg, ret, enq, deq, stop_returned, pop_failed>>
\* stop, lines 235-238: stopped_ = true under the lock
StopEnter(t) ==
    /\ pc[t] = "stop_enter"
    /\ stopped_' = TRUE
    /\ StopHistory
    /\ pc' = [pc EXCEPT ![t] = "stop_notify_empty"]
    /\ UNCHANGED <<queue_, max_items_, arg, ret, enq, deq, stop_returned, pop_failed>>

\* stop, line 239: cv_empty_.notify_all()
StopNotifyEmpty(t) ==
    /\ pc[t] = "stop_notify_empty"
    /\ NotifyAll(t, CvEmptyWaiters, "pop_enter", "stop_notify_full")
    /\ UNCHANGED <<qvars, arg, ret, hvars>>

\* stop, line 240: cv_full_.notify_all(), return
StopNotifyFull(t) ==
    /\ pc[t] = "stop_notify_full"
    /\ NotifyAll(t, CvFullWaiters, "push_enter", "none")
    /\ stop_returned' = TRUE
    /\ UNCHANGED <<qvars, arg, ret, enq, deq, atStop, enqAtStop, stopWoken, pop_failed, restopped>>

\* std::condition_variable::wait may return without a notification; the
\* predicate loop of wait(lock, pred) then re-checks the predicate.
SpuriousWake(t) ==
    /\ pc[t] \in {"push_wait", "pop_wait"}
    /\ pc' = [pc EXCEPT ![t] = IF pc[t] = "push_wait" THEN "push_enter" ELSE "pop_enter"]
    /\ UNCHANGED <<qvars, arg, ret, hvars>>

\* ------------------------------------------- the queue on its own (Spec)
\* FrameBuffer(max_items): a fresh, empty, not stopped queue
InitBuffer(cap) ==
    /\ queue_ = <<>>
    /\ stopped_ = FALSE
    /\ max_items_ = cap
    /\ enq = <<>>
    /\ deq = <<>>
    /\ stop_returned = FALSE
    /\ atStop = <<>>
    /\ enqAtStop = 0
    /\ stopWoken = {}
    /\ pop_failed = FALSE
    /\ restopped = FALSE

\* ServerApp(cfg): no pipeline built, no pipeline thread
InitPipe ==
    /\ loc = [t \in PipeThreads |-> IF t = "ctl" THEN "idle" ELSE "off"]
    /\ pipe_running_ = FALSE
    /\ running_ = FALSE
    /\ built = FALSE
    /\ cap_joined = FALSE
    /\ wrk_joined = FALSE
    /\ racy = FALSE
    /\ published = <<>>
    /\ nstarts = 0
    /\ crashed = FALSE
    /\ readfails = 0
    /\ last_op = "none"

\* VideoPipeline(p): running{false}, th default constructed
InitVideo ==
    /\ running = FALSE
    /\ th = "none"
    /\ frame_id = 0
    /\ vloc = "idle"
    /\ vstarts = 0
    /\ vlast_op = "none"

\* threads that call publish on one EventPublisher
PubThreads == {"w1", "w2"}

\* a default constructed FrameResult: no detections, level LOW, timestamp 0
NoFrame == [id |-> 0, frame_level |-> "LOW", dets |-> <<>>, timestamp_us |-> 0]

\* EventPublisher(path) on a path that holds f0: mu_ free, no call in progress
InitPublisherOn(f0) ==
    /\ file = f0
    /\ file0 = f0
    /\ writable = TRUE
    /\ pub_mu_ = "free"
    /\ ppc = [t \in PubThreads |-> "idle"]
    /\ pframe = [t \in PubThreads |-> NoFrame]
    /\ pline = [t \in PubThreads |-> <<>>]
    /\ done = <<>>
    /\ npub = 0

InitPublisher == InitPublisherOn(<<>>)

\* FrameResult output = input, for an input that comes from the capture thread
InitInfer ==
    /\ out_dets = <<>>
    /\ out_level = "LOW"
    /\ iloc = "run"

\* class_names_path is empty / names a file that cannot be opened
NoPath == [kind |-> "nopath", lines |-> <<>>]
Unreadable == [kind |-> "unreadable", lines |-> <<>>]
\* class_names_path names a file with these lines
NamesFile(lines) == [kind |-> "file", lines |-> lines]

\* no InferenceEngine is under construction
InitNoCtor ==
    /\ cloc = "none"
    /\ use_onnxruntime = TRUE
    /\ names_file = NoPath
    /\ class_names_ = <<>>
    /\ best_cls = -1

\* no single operation has been called
InitRest ==
    /\ lbl = <<>>
    /\ lbl_level = "none"
    /\ InitNoCtor

\* a build with ONNX Runtime and a model file that ONNX Runtime can load (ol)
\* and that OpenCV can load (cl); no engine has been constructed
InitModels(ol, cl) ==
    /\ with_ort = TRUE
    /\ ort_loads = ol
    /\ cv_loads = cl
    /\ use_ort_ = FALSE
    /\ ready_ = FALSE
    /\ handed = <<>>

\* a default constructed FrameEvent
NoEvent == [frame_id |-> 0, objects |-> <<>>, actions |-> <<>>, zones |-> <<>>,
            audio_flags |-> <<>>, risk_local |-> 0, level_local |-> "none"]

\* confidences count in 1/10000, risks in 1/1000000
RiskOne == 1000000

\* core::Thresholds as default constructed, and the initial values of the
\* atomics of VideoPipeline::Impl: 0.25, 0.25, 0.60, 0.80
DefaultThresholds ==
    [obj_conf |-> 2500, act_conf |-> 2500, risk_medium |-> 600000, risk_high |-> 800000]

\* the arguments of an update_params call: thresholds and zones
NoUpdate == [th |-> DefaultThresholds, zones |-> <<>>]

\* VideoPipeline::VideoPipeline: post(p) keeps params and an empty zone list,
\* the atomics hold their initial values; no call is in progress
InitPost ==
    /\ ev = NoEvent
    /\ fargs = DefaultThresholds
    /\ floc = "none"
    /\ zones = <<>>
    /\ zwriting = FALSE
    /\ thresh = DefaultThresholds
    /\ events = <<>>
    /\ uloc = "idle"
    /\ uarg = NoUpdate
    /\ nupd = 0
    /\ applied = <<>>
    /\ fstart = 0

\* an environment variable that is not set, a field a request body does not
\* carry; strings are sequences of characters
Unset == [set |-> FALSE, val |-> <<>>]
\* an environment variable or a field of a request body with value v
Given(v) == [set |-> TRUE, val |-> v]

\* AppConfig as default constructed: the defaults of its members; the
\* confidence threshold in hundredths
DefaultConfig ==
    [source |-> <<"0">>, model_path |-> <<"m">>, class_names_path |-> <<>>,
     img_size |-> 640, conf_threshold |-> 25, alerts_jsonl |-> <<"a">>,
     target_fps |-> 0, overlay_enabled |-> TRUE, use_ort |-> TRUE, show_window |-> FALSE]

\* the arguments of start_pipeline as the route /pipeline/start builds them
\* from cfg and a request body
StartArgs(cfg, body) ==
    [source |-> IF body.source.set THEN body.source.val ELSE cfg.source,
     weights |-> IF body.yolo_weights.set THEN body.yolo_weights.val ELSE cfg.model_path,
     conf |-> IF body.conf.set THEN body.conf.val ELSE cfg.conf_threshold]

\* a request without a body
NoBody == [source |-> Unset, yolo_weights |-> Unset, conf |-> Unset]

\* no status() has been called
NoStatus == [running |-> FALSE, uptime_sec |-> 0, args |-> DefaultConfig, at |-> -1]

\* the environment variables parse_args reads
EnvNames == {"VIDEO_SOURCE", "IMG_SIZE", "YOLO_CONF", "YOLO_WEIGHTS", "ALERTS_JSONL", "FPS"}

\* ServerApp(cfg) with the default configuration, empty environment and
\* command line; nothing has been started and no status has been asked for
InitApp ==
    /\ cfg_ = DefaultConfig
    /\ req = StartArgs(DefaultConfig, NoBody)
    /\ active = StartArgs(DefaultConfig, NoBody)
    /\ pipe_started_ = 0
    /\ now = 0
    /\ st = NoStatus
    /\ environ = [n \in EnvNames |-> Unset]
    /\ argv = <<>>
    /\ aloc = "start"

\* the threads that call start and stop of one VideoPipeline
VideoCallers == {"a", "b"}

\* core::CameraParams as default constructed: default thresholds, no zones
DefaultParams == [thresholds |-> DefaultThresholds, zones |-> <<>>]

\* no candidate row has been looked at
NoCandidate == [seen |-> FALSE, by |-> "none", emitted |-> FALSE, best_score |-> 0, best_cls |-> -1]

\* no caller is inside start or stop; the pipeline was constructed with the
\* default CameraParams; the engine with conf_threshold 0.25
InitMore ==
    /\ vcall = [c \in VideoCallers |-> "idle"]
    /\ params = DefaultParams
    /\ cand = <<>>
    /\ conf_threshold_ = 2500
    /\ kept = NoCandidate

InitThreads ==
    /\ pc = [t \in Threads |-> "none"]
    /\ arg = [t \in Threads |-> NoItem]
    /\ ret = [t \in Threads |-> NoRet]
    /\ nitems = 0

Init ==
    /\ \E cap \in Capacities : InitBuffer(cap)
    /\ InitThreads
    /\ InitPipe
    /\ InitVideo
    /\ InitPublisher
    /\ InitInfer
    /\ InitRest
    /\ InitModels(TRUE, TRUE)
    /\ InitPost
    /\ InitApp
    /\ InitMore
    /\ proc = "edge"

\* a producer calls push with a fresh item
CallPush(t) ==
    /\ pc[t] = "none"
    /\ nitems < MaxPush
    /\ nitems' = nitems + 1
    /\ arg' = [arg EXCEPT ![t] = nitems + 1]
    /\ pc' = [pc EXCEPT ![t] = "push_enter"]
    /\ UNCHANGED <<qvars, hvars, ret, pvars, lvars, ovars>>

\* a consumer calls pop
CallPop(t) ==
    /\ pc[t] = "none"
    /\ pc' = [pc EXCEPT ![t] = "pop_enter"]
    /\ UNCHANGED <<qvars, hvars, arg, ret, nitems, pvars, lvars, ovars>>

\* the stopper calls stop
CallStop(t) ==
    /\ pc[t] = "none"
    /\ pc' = [pc EXCEPT ![t] = "stop_enter"]
    /\ UNCHANGED <<qvars, hvars, arg, ret, nitems, pvars, lvars, ovars>>

QPushEnter == \E t \in Producers : PushEnter(t) /\ UNCHANGED <<nitems, pvars, lvars, ovars>>
QPushNotify == \E t \in Producers : PushNotify(t) /\ UNCHANGED <<nitems, pvars, lvars, ovars>>
QPopEnter == \E t \in Consumers : PopEnter(t) /\ UNCHANGED <<nitems, pvars, lvars, ovars>>
QPopNotify == \E t \in Consumers : PopNotify(t) /\ UNCHANGED <<nitems, pvars, lvars, ovars>>
QStopEnter == \E t \in Stoppers : StopEnter(t) /\ UNCHANGED <<nitems, pvars, lvars, ovars>>
QStopNotifyEmpty == \E t \in Stoppers : StopNotifyEmpty(t) /\ UNCHANGED <<nitems, pvars, lvars, ovars>>
QStopNotifyFull == \E t \in Stoppers : StopNotifyFull(t) /\ UNCHANGED <<nitems, pvars, lvars, ovars>>
QSpuriousWake == \E t \in QThreads : SpuriousWake(t) /\ UNCHANGED <<nitems, pvars, lvars, ovars>>
QCallPush == \E t \in Producers : CallPush(t)
QCallPop == \E t \in Consumers : CallPop(t)
QCallStop == \E t \in Stoppers : CallStop(t)

Next ==
    \/ QCallPush
    \/ QCallPop
    \/ QCallStop
    \/ QPushEnter
    \/ QPushNotify
    \/ QPopEnter
    \/ QPopNotify
    \/ QStopEnter
    \/ QStopNotifyEmpty
    \/ QStopNotifyFull
    \/ QSpuriousWake

Spec == Init /\ [][Next]_vars

\* ------------------------------------------------ claims about FrameBuffer
PushPending(t) == pc[t] \in {"push_enter", "push_wait"}
PopPending(t) == pc[t] \in {"pop_enter", "pop_wait"}
InStopCall(t) == pc[t] \in {"stop_enter", "stop_notify_empty", "stop_notify_full"}
NoDuplicates(s) == \A i, j \in 1..Len(s) : i # j => s[i] # s[j]

\* C1: in every reachable state, under any interleaving of push, pop and stop
\* by several producers and consumers, the queue holds at most max_items_ items.
C1_QueueBound == Len(queue_) <= max_items_

\* the queue is full, one producer waits on cv_full_ and another is about to
\* evaluate the wait predicate
C1_Witness ==
    /\ Len(queue_) = max_items_
    /\ \E t, u \in Producers : pc[t] = "push_wait" /\ pc[u] = "push_enter"

\* C2: a push issued while the not stopped queue holds max_items_ items does
\* not store its item and does not return in any step taken while the queue is
\* still that full; only a pop, which shortens the queue, lets it go on.
C2_FullPushBlocks ==
    [][\A t \in Producers :
          (PushPending(t) /\ ~stopped_ /\ Len(queue_) >= max_items_)
              => (PushPending(t)' /\ arg[t] \notin Range(queue_'))]_vars

\* a producer that found the queue of capacity 2 full is waiting on cv_full_
C2_Witness ==
    /\ ~stopped_
    /\ max_items_ = 2
    /\ Len(queue_) = max_items_
    /\ \E t \in Producers : pc[t] = "push_wait" /\ arg[t] \notin Range(queue_)

\* C3: once a stop() call has returned, no producer is blocked in push (a
\* producer that waited on the full queue has been released, and no later push
\* waits).
C3_StopReleasesPush == stop_returned => \A t \in Producers : pc[t] # "push_wait"

\* C4, as claimed: a consumer that was blocked in pop on the empty queue when
\* stop() was called returns not-ok (its pop never hands out an item).
C4_BlockedPopReturnsNotOk ==
    [][\A t \in stopWoken : pc[t] = "pop_enter" => pc'[t] \in {"pop_enter", "none"}]_vars

\* C4, amended: once a stop() call has returned no consumer waits in pop, and a
\* consumer that was blocked on the empty queue when stop() was called returns
\* not-ok unless an item was stored after the stop, which it then hands out.
C4_StopReleasesPop ==
    /\ [](stop_returned => \A t \in Consumers : pc[t] # "pop_wait")
    /\ [][\A t \in stopWoken :
             (pc[t] = "pop_enter" /\ pc'[t] = "pop_notify")
                 => (Len(enq) > enqAtStop /\ deq' = Append(deq, enq[Len(deq) + 1]))]_vars
    /\ [][\A t \in stopWoken : pc[t] = "pop_enter" => pc'[t] # "pop_wait"]_vars

\* both consumers were blocked on the empty queue when stop() was called and
\* both have been woken by its notify_all
C4_Witness ==
    /\ stopWoken = Consumers
    /\ stopped_
    /\ \A t \in Consumers : pc[t] = "pop_enter"

\* C5: pop returns false only in a step taken with stopped_ set and the queue
\* empty; with the queue empty and not stopped a pop in progress does not
\* return; a pop that returns true hands out an item that was pushed and not
\* popped before, and takes it out of the queue.
C5_PopContract ==
    [][\A t \in Consumers :
          /\ (pc[t] = "pop_enter" /\ pc'[t] = "none") => (stopped_ /\ queue_ = <<>>)
          /\ (PopPending(t) /\ queue_ = <<>> /\ ~stopped_) => PopPending(t)'
          /\ (pc[t] = "pop_enter" /\ pc'[t] = "pop_notify")
                => /\ Len(deq') = Len(deq) + 1
                   /\ deq'[Len(deq')] \in Range(queue_) \cap Range(enq)
                   /\ deq'[Len(deq')] \notin Range(deq) \cup Range(queue_')]_vars

\* a pop has returned false, and another consumer is leaving pop with an item
C5_Witness ==
    /\ pop_failed
    /\ \E t \in Consumers : pc[t] = "pop_notify"

\* C6: after stop() with k items buffered and no later push, the pops hand out
\* exactly those k items in the order they were pushed (what was handed out
\* since the stop, followed by what is still queued, is the queue as it was at
\* the stop); a pop returns false only when all k are out, and once stop() has
\* returned no pop waits.
C6_DrainThenStop ==
    (stopped_ /\ Len(enq) = enqAtStop) =>
        /\ SubSeq(deq, enqAtStop - Len(atStop) + 1, Len(deq)) \o queue_ = atStop
        /\ pop_failed => queue_ = <<>>
        /\ stop_returned => \A t \in Consumers : pc[t] # "pop_wait"

\* two items were buffered at the stop, both were handed out afterwards, and a
\* later pop returned false
C6_Witness ==
    /\ stopped_
    /\ Len(atStop) = 2
    /\ Len(enq) = enqAtStop
    /\ Len(deq) = Len(enq)
    /\ pop_failed

\* C8: each pushed item is handed out by at most one pop, and an item a pop
\* handed out is no longer in the queue, under any interleaving of producers
\* and consumers.
C8_HandedOverOnce ==
    /\ NoDuplicates(deq)
    /\ Range(deq) \cap Range(queue_) = {}

\* both consumers are leaving pop at the same time, each with its own item
C8_Witness ==
    /\ \A t \in Consumers : pc[t] = "pop_notify"
    /\ Len(deq) >= 2

\* C9: stopped_ is never cleared, and a stop() on the already stopped queue
\* changes neither stopped_ nor the buffered items nor the capacity, in any
\* interleaving with push and pop.
C9_StopIdempotent ==
    [][/\ stopped_ => stopped_'
       /\ \A t \in Stoppers :
             (stopped_ /\ InStopCall(t) /\ pc'[t] # pc[t])
                 => <<queue_, stopped_, max_items_>>' = <<queue_, stopped_, max_items_>>]_vars

\* a second stop() has run to its end on the stopped queue, which still holds
\* an item
C9_Witness ==
    /\ restopped
    /\ stopped_
    /\ queue_ # <<>>
    /\ \A t \in Stoppers : pc[t] = "none"

\* ------------------------------- labels and danger levels (InferenceEngine)
DangerLevels == {"LOW", "MEDIUM", "HIGH"}

\* labels are character strings
LblGun == <<"G", "u", "n">>
LblKnife == <<"k", "n", "i", "f", "e">>
LblScissors == <<"s", "c", "i", "s", "s", "o", "r", "s">>
LblPerson == <<"p", "e", "r", "s", "o", "n">>

\* the letters of the "C" locale
LowerCase == <<"a", "b", "c", "d", "e", "f", "g", "h", "i", "j", "k", "l", "m", "n", "o", "p", "q", "r", "s", "t", "u", "v", "w", "x", "y", "z">>
UpperCase == <<"A", "B", "C", "D", "E", "F", "G", "H", "I", "J", "K", "L", "M", "N", "O", "P", "Q", "R", "S", "T", "U", "V", "W", "X", "Y", "Z">>

\* faulty variant of tolower: the character is kept
tolowerKeeps(c) == c
\* std::tolower: an upper-case letter becomes its lower-case letter, every
\* other character is kept
tolower(c) ==
    IF \E i \in 1..Len(UpperCase) : UpperCase[i] = c
    THEN LowerCase[CHOOSE i \in 1..Len(UpperCase) : UpperCase[i] = c]
    ELSE c
\* InferenceEngine::canonical: the label in lower case
canonical(l) == [i \in 1..Len(l) |-> tolower(l[i])]

high_labels_ ==
    { <<"k", "n", "i", "f", "e">>, <<"g", "u", "n">>, <<"p", "i", "s", "t", "o", "l">>,
      <<"r", "i", "f", "l", "e">>, <<"r", "e", "v", "o", "l", "v", "e", "r">>,
      <<"f", "i", "r", "e", "a", "r", "m">> }
medium_labels_ == { <<"s", "c", "i", "s", "s", "o", "r", "s">> }

\* InferenceEngine::level_for_label
level_for_label(l) ==
    IF canonical(l) \in high_labels_ THEN "HIGH"
    ELSE IF canonical(l) \in medium_labels_ THEN "MEDIUM"
    ELSE "LOW"

\* Detection{label, best_score, box, level} as the engine builds it
Detection(l) == [label |-> l, level |-> level_for_label(l)]

RECURSIVE FrameLevelLast(_, _, _)
\* faulty variant of FrameLevelFrom: every detection overwrites the level
FrameLevelLast(ds, i, lvl) ==
    IF i > Len(ds) THEN lvl
    ELSE FrameLevelLast(ds, i + 1, ds[i].level)
RECURSIVE FrameLevelFrom(_, _, _)
\* run_opencv, lines 767-775 (run_ort, lines 657-665): the loop over
\* output.dets from index i on, with frame_level = lvl so far
FrameLevelFrom(ds, i, lvl) ==
    IF i > Len(ds) THEN lvl
    ELSE IF ds[i].level = "HIGH" THEN "HIGH"
    ELSE IF ds[i].level = "MEDIUM" THEN FrameLevelFrom(ds, i + 1, "MEDIUM")
    ELSE FrameLevelFrom(ds, i + 1, lvl)


\* ---------------------------------- InferenceEngine: construction and run
\* class_names_ as the constructor sets it at lines 448-460
BuiltinNames ==
    << <<"p", "e", "r", "s", "o", "n">>,
       <<"b", "i", "c", "y", "c", "l", "e">>,
       <<"c", "a", "r">>,
       <<"m", "o", "t", "o", "r", "c", "y", "c", "l", "e">>,
       <<"a", "i", "r", "p", "l", "a", "n", "e">>,
       <<"b", "u", "s">>,
       <<"t", "r", "a", "i", "n">>,
       <<"t", "r", "u", "c", "k">>,
       <<"b", "o", "a", "t">>,
       <<"t", "r", "a", "f", "f", "i", "c", " ", "l", "i", "g", "h", "t">>,
       <<"f", "i", "r", "e", " ", "h", "y", "d", "r", "a", "n", "t">>,
       <<"s", "t", "o", "p", " ", "s", "i", "g", "n">>,
       <<"p", "a", "r", "k", "i", "n", "g", " ", "m", "e", "t", "e", "r">>,
       <<"b", "e", "n", "c", "h">>,
       <<"b", "i", "r", "d">>,
       <<"c", "a", "t">>,
       <<"d", "o", "g">>,
       <<"h", "o", "r", "s", "e">>,
       <<"s", "h", "e", "e", "p">>,
       <<"c", "o", "w">>,
       <<"e", "l", "e", "p", "h", "a", "n", "t">>,
       <<"b", "e", "a", "r">>,
       <<"z", "e", "b", "r", "a">>,
       <<"g", "i", "r", "a", "f", "f", "e">>,
       <<"b", "a", "c", "k", "p", "a", "c", "k">>,
       <<"u", "m", "b", "r", "e", "l", "l", "a">>,
       <<"h", "a", "n", "d", "b", "a", "g">>,
       <<"t", "i", "e">>,
       <<"s", "u", "i", "t", "c", "a", "s", "e">>,
       <<"f", "r", "i", "s", "b", "e", "e">>,
       <<"s", "k", "i", "s">>,
       <<"s", "n", "o", "w", "b", "o", "a", "r", "d">>,
       <<"s", "p", "o", "r", "t", "s", " ", "b", "a", "l", "l">>,
       <<"k", "i", "t", "e">>,
       <<"b", "a", "s", "e", "b", "a", "l", "l", " ", "b", "a", "t">>,
       <<"b", "a", "s", "e", "b", "a", "l", "l", " ", "g", "l", "o", "v", "e">>,
       <<"s", "k", "a", "t", "e", "b", "o", "a", "r", "d">>,
       <<"s", "u", "r", "f", "b", "o", "a", "r", "d">>,
       <<"t", "e", "n", "n", "i", "s", " ", "r", "a", "c", "k", "e", "t">>,
       <<"b", "o", "t", "t", "l", "e">>,
       <<"w", "i", "n", "e", " ", "g", "l", "a", "s", "s">>,
       <<"c", "u", "p">>,
       <<"f", "o", "r", "k">>,
       <<"k", "n", "i", "f", "e">>,
       <<"s", "p", "o", "o", "n">>,
       <<"b", "o", "w", "l">>,
       <<"b", "a", "n", "a", "n", "a">>,
       <<"a", "p", "p", "l", "e">>,
       <<"s", "a", "n", "d", "w", "i", "c", "h">>,
       <<"o", "r", "a", "n", "g", "e">>,
       <<"b", "r", "o", "c", "c", "o", "l", "i">>,
       <<"c", "a", "r", "r", "o", "t">>,
       <<"h", "o", "t", " ", "d", "o", "g">>,
       <<"p", "i", "z", "z", "a">>,
       <<"d", "o", "n", "u", "t">>,
       <<"c", "a", "k", "e">>,
       <<"c", "h", "a", "i", "r">>,
       <<"c", "o", "u", "c", "h">>,
       <<"p", "o", "t", "t", "e", "d", " ", "p", "l", "a", "n", "t">>,
       <<"b", "e", "d">>,
       <<"d", "i", "n", "i", "n", "g", " ", "t", "a", "b", "l", "e">>,
       <<"t", "o", "i", "l", "e", "t">>,
       <<"t", "v">>,
       <<"l", "a", "p", "t", "o", "p">>,
       <<"m", "o", "u", "s", "e">>,
       <<"r", "e", "m", "o", "t", "e">>,
       <<"k", "e", "y", "b", "o", "a", "r", "d">>,
       <<"c", "e", "l", "l", " ", "p", "h", "o", "n", "e">>,
       <<"m", "i", "c", "r", "o", "w", "a", "v", "e">>,
       <<"o", "v", "e", "n">>,
       <<"t", "o", "a", "s", "t", "e", "r">>,
       <<"s", "i", "n", "k">>,
       <<"r", "e", "f", "r", "i", "g", "e", "r", "a", "t", "o", "r">>,
       <<"b", "o", "o", "k">>,
       <<"c", "l", "o", "c", "k">>,
       <<"v", "a", "s", "e">>,
       <<"s", "c", "i", "s", "s", "o", "r", "s">>,
       <<"t", "e", "d", "d", "y", " ", "b", "e", "a", "r">>,
       <<"h", "a", "i", "r", " ", "d", "r", "i", "e", "r">>,
       <<"t", "o", "o", "t", "h", "b", "r", "u", "s", "h">> >>

\* the lines of a class-name file that std::getline returns and that are not empty
NonEmptyLines(f) == SelectSeq(f.lines, LAMBDA l : l # <<>>)

\* InferenceEngine::load_class_names: a file that cannot be opened is skipped
\* with a warning, else every non-empty line is pushed to the back of class_names_
load_class_names(names, f) ==
    IF f = Unreadable THEN names ELSE names \o NonEmptyLines(f)

\* if (!class_names_path.empty()) load_class_names(class_names_path);
LoadNames(names, f) == IF f = NoPath THEN names ELSE load_class_names(names, f)

\* the member initialisers and lines 446-460: use_ort_(use_onnxruntime),
\* ready_{false}, the built-in table
CtorStart(use) == [use_ort |-> use, ready |-> FALSE, names |-> BuiltinNames]

\* lines 462-500: with USE_ONNXRUNTIME (w) and use_ort_, the session is
\* created; ol says that this succeeds, else the exception is caught and
\* use_ort_ is cleared; without USE_ONNXRUNTIME use_ort_ is cleared
CtorOrtStage(e, w, ol, f) ==
    IF ~w THEN [e EXCEPT !.use_ort = FALSE]
    ELSE IF ~e.use_ort THEN e
    ELSE IF ol THEN [e EXCEPT !.names = LoadNames(e.names, f), !.ready = TRUE]
    ELSE [e EXCEPT !.use_ort = FALSE]

\* lines 502-516: if (!use_ort_) readNet; cl says that this succeeds, else the
\* exception is caught and ready_ = false
CtorCvStage(e, cl, f) ==
    IF e.use_ort THEN e
    ELSE IF cl THEN [e EXCEPT !.names = LoadNames(e.names, f), !.ready = TRUE]
    ELSE [e EXCEPT !.ready = FALSE]

\* the InferenceEngine that the constructor leaves
NewEngine(use, w, ol, cl, f) == CtorCvStage(CtorOrtStage(CtorStart(use), w, ol, f), cl, f)

\* RtspStreamer::run, lines 60-63: the FrameResult pushed for the frame read
\* as number id; the image is named by id (0 is the empty cv::Mat), the tick
\* count by id
CapturedFrame(id) == [frame |-> id, dets |-> <<>>, frame_level |-> "LOW", timestamp_sec |-> id]

\* the candidates that pass the threshold in the image id: every second frame
\* of the scene shows a gun
Scene(id) == IF id % 2 = 0 THEN <<Detection(LblGun)>> ELSE <<>>

\* faulty variant of run: an engine that is not ready returns an empty FrameResult
runEmpties(input) ==
    IF ~ready_ \/ input.frame = 0
    THEN [frame |-> 0, dets |-> <<>>, frame_level |-> "LOW", timestamp_sec |-> 0]
    ELSE [input EXCEPT !.dets = Scene(input.frame),
                       !.frame_level = FrameLevelFrom(Scene(input.frame), 1, "LOW")]
\* InferenceEngine::run: if (!ready_ || input.frame.empty()) return input; else
\* the backend fills dets and frame_level
run(input) ==
    IF ~ready_ \/ input.frame = 0
    THEN input
    ELSE [input EXCEPT !.dets = Scene(input.frame),
                       !.frame_level = FrameLevelFrom(Scene(input.frame), 1, "LOW")]

\* ------------------------------------------- ServerApp pipeline (SpecPipe)
\* bounds: frames the source delivers per pipeline, pipelines built
MaxFrames == 5
MaxStarts == 2
\* consecutive failed reads that are counted
MaxFails == 2

\* the capture thread has returned from RtspStreamer::run: at line 43 after a
\* failed open (run_failed) or at line 72 (run_ret)
CapDone == loc["cap"] \in {"run_ret", "run_failed"} /\ pc["cap"] = "none"
\* the worker thread has left its loop
WrkDone == loc["wrk"] = "done"

\* faulty variant of NewBuffer: buf_ is not replaced, the queue of the earlier
\* run is kept as stop left it
NewBufferKeeps(cap) ==
    /\ max_items_' = cap
    /\ pop_failed' = FALSE
    /\ restopped' = FALSE
    /\ UNCHANGED <<queue_, stopped_, enq, deq, stop_returned, atStop, enqAtStop, stopWoken>>

\* std::make_unique<FrameBuffer<FrameResult>>(4)
NewBuffer(cap) ==
    /\ queue_' = <<>>
    /\ stopped_' = FALSE
    /\ max_items_' = cap
    /\ enq' = <<>>
    /\ deq' = <<>>
    /\ stop_returned' = FALSE
    /\ atStop' = <<>>
    /\ enqAtStop' = 0
    /\ stopWoken' = {}
    /\ pop_failed' = FALSE
    /\ restopped' = FALSE

\* faulty variant of StartPipelineNoop: the guard of line 165 is missing and the
\* queue of the running pipeline is replaced
StartPipelineAgain ==
    /\ proc = "edge"
    /\ ~crashed
    /\ loc["ctl"] = "idle"
    /\ pipe_running_
    /\ last_op' = "start_noop"
    /\ NewBuffer(DefaultCapacity)
    /\ UNCHANGED <<pc, arg, ret, nitems, pvars, readfails, ovars>>
\* start_pipeline while pipe_running_ is set: return at once
StartPipelineNoop ==
    /\ proc = "edge"
    /\ ~crashed
    /\ loc["ctl"] = "idle"
    /\ pipe_running_
    /\ last_op' = "start_noop"
    /\ UNCHANGED <<qvars, hvars, pc, arg, ret, nitems, pvars, readfails, ovars>>

\* start_pipeline, lines 164-190: build buf_, streamer_, infer_, tracker_,
\* publisher_, set pipe_running_, streamer_->start() (running_ = true, capture
\* thread), worker thread
StartPipeline ==
    /\ proc = "edge"
    /\ ~crashed
    /\ loc["ctl"] = "idle"
    /\ ~pipe_running_
    /\ nstarts < MaxStarts
    /\ nstarts' = nstarts + 1
    /\ NewBuffer(DefaultCapacity)
    /\ built' = TRUE
    /\ pipe_running_' = TRUE
    /\ running_' = TRUE
    /\ loc' = [loc EXCEPT !["cap"] = "run_open", !["wrk"] = "w_check"]
    /\ cap_joined' = FALSE
    /\ wrk_joined' = FALSE
    /\ racy' = FALSE
    /\ published' = <<>>
    /\ nitems' = 0
    /\ pc' = [pc EXCEPT !["cap"] = "none", !["wrk"] = "none"]
    /\ arg' = [arg EXCEPT !["cap"] = NoItem]
    /\ ret' = [ret EXCEPT !["wrk"] = NoRet]
    /\ readfails' = 0
    /\ last_op' = "start"
    /\ LET e == NewEngine(use_onnxruntime, with_ort, ort_loads, cv_loads, names_file)
       IN /\ use_ort_' = e.use_ort
          /\ ready_' = e.ready
    /\ handed' = <<>>
    /\ active' = req
    /\ pipe_started_' = now
    /\ UNCHANGED <<crashed, proc, vvars, evars, ivars, xvars, kvars, with_ort, ort_loads, cv_loads,
                   cfg_, req, now, st, environ, argv, aloc, wvars>>

\* faulty variant of StopPipelineUnbuilt: the joins are not guarded
StopPipelineUnbuiltJoins ==
    /\ proc = "edge"
    /\ ~crashed
    /\ loc["ctl"] = "idle"
    /\ ~built
    /\ pipe_running_' = FALSE
    /\ last_op' = "stop_noop"
    /\ cap_joined' = TRUE
    /\ wrk_joined' = TRUE
    /\ UNCHANGED <<qvars, hvars, pc, arg, ret, nitems, loc, running_, built,
                   racy, published, nstarts, crashed, readfails, ovars>>
\* stop_pipeline with nothing built: pipe_running_ = false, every branch skipped
StopPipelineUnbuilt ==
    /\ proc = "edge"
    /\ ~crashed
    /\ loc["ctl"] = "idle"
    /\ ~built
    /\ pipe_running_' = FALSE
    /\ last_op' = "stop_noop"
    /\ UNCHANGED <<qvars, hvars, pc, arg, ret, nitems, loc, running_, built,
                   cap_joined, wrk_joined, racy, published, nstarts, crashed, readfails, ovars>>

\* stop_pipeline, lines 194-196: lock, pipe_running_ = false, call buf_->stop()
StopPipelineBegin ==
    /\ proc = "edge"
    /\ ~crashed
    /\ loc["ctl"] = "idle"
    /\ built
    /\ pipe_running_' = FALSE
    /\ racy' = (pipe_running_ /\ ~WrkDone)
    /\ pc' = [pc EXCEPT !["ctl"] = "stop_enter"]
    /\ loc' = [loc EXCEPT !["ctl"] = "sp_streamer"]
    /\ last_op' = "stop"
    /\ UNCHANGED <<qvars, hvars, arg, ret, nitems, running_, built,
                   cap_joined, wrk_joined, published, nstarts, crashed, readfails, ovars>>

\* RtspStreamer::stop, lines 22-24, called at stop_pipeline line 197:
\* if (!running_) return; running_ = false; buffer_.stop();
StreamerStop ==
    /\ ~crashed
    /\ loc["ctl"] = "sp_streamer"
    /\ pc["ctl"] = "none"
    /\ IF ~running_
       THEN /\ loc' = [loc EXCEPT !["ctl"] = "sp_join_wrk"]
            /\ UNCHANGED <<pc, running_>>
       ELSE /\ running_' = FALSE
            /\ pc' = [pc EXCEPT !["ctl"] = "stop_enter"]
            /\ loc' = [loc EXCEPT !["ctl"] = "sp_join_cap"]
    /\ UNCHANGED <<qvars, hvars, arg, ret, nitems, pipe_running_, built,
                   cap_joined, wrk_joined, racy, published, nstarts, crashed, lvars, ovars>>

\* RtspStreamer::stop, line 25: if (worker_.joinable()) worker_.join();
StreamerJoin ==
    /\ ~crashed
    /\ loc["ctl"] = "sp_join_cap"
    /\ pc["ctl"] = "none"
    /\ CapDone
    /\ cap_joined' = TRUE
    /\ loc' = [loc EXCEPT !["ctl"] = "sp_join_wrk"]
    /\ UNCHANGED <<qvars, hvars, pc, arg, ret, nitems, pipe_running_, running_,
                   built, wrk_joined, racy, published, nstarts, crashed, lvars, ovars>>

\* stop_pipeline, line 198: if (worker_ && worker_->joinable()) worker_->join();
WorkerJoin ==
    /\ ~crashed
    /\ loc["ctl"] = "sp_join_wrk"
    /\ WrkDone
    /\ wrk_joined' = TRUE
    /\ loc' = [loc EXCEPT !["ctl"] = "sp_reset"]
    /\ UNCHANGED <<qvars, hvars, pc, arg, ret, nitems, pipe_running_, running_,
                   built, cap_joined, racy, published, nstarts, crashed, lvars, ovars>>

\* stop_pipeline, lines 199-204: the resets.  streamer_.reset() runs
\* ~RtspStreamer, whose stop() returns at once (running_ is false), and then
\* ~std::thread, which calls std::terminate if the thread was never joined.
StopPipelineReset ==
    /\ ~crashed
    /\ loc["ctl"] = "sp_reset"
    /\ IF ~cap_joined
       THEN /\ crashed' = TRUE
            /\ UNCHANGED <<loc, built>>
       ELSE /\ built' = FALSE
            /\ loc' = [loc EXCEPT !["ctl"] = "idle", !["cap"] = "off", !["wrk"] = "off"]
            /\ UNCHANGED crashed
    /\ UNCHANGED <<qvars, hvars, pc, arg, ret, nitems, pipe_running_, running_,
                   cap_joined, wrk_joined, racy, published, nstarts, lvars, ovars>>

\* faulty variant of CapOpen: a failed open returns without stopping the queue
CapOpenNoStop ==
    /\ ~crashed
    /\ loc["cap"] = "run_open"
    /\ \E opened \in BOOLEAN :
          IF opened
          THEN /\ loc' = [loc EXCEPT !["cap"] = "run_loop"]
               /\ UNCHANGED <<pc, running_>>
          ELSE /\ running_' = FALSE
               /\ loc' = [loc EXCEPT !["cap"] = "run_failed"]
               /\ UNCHANGED pc
    /\ UNCHANGED <<qvars, hvars, arg, ret, nitems, pipe_running_, built,
                   cap_joined, wrk_joined, racy, published, nstarts, crashed, lvars, ovars>>
\* RtspStreamer::run, lines 29-44: open the source; on failure running_ = false,
\* buffer_.stop(), return
CapOpen ==
    /\ ~crashed
    /\ loc["cap"] = "run_open"
    /\ \E opened \in BOOLEAN :
          IF opened
          THEN /\ loc' = [loc EXCEPT !["cap"] = "run_loop"]
               /\ UNCHANGED <<pc, running_>>
          ELSE /\ running_' = FALSE
               /\ pc' = [pc EXCEPT !["cap"] = "stop_enter"]
               /\ loc' = [loc EXCEPT !["cap"] = "run_failed"]
    /\ UNCHANGED <<qvars, hvars, arg, ret, nitems, pipe_running_, built,
                   cap_joined, wrk_joined, racy, published, nstarts, crashed, lvars, ovars>>

\* faulty variant of CapReadFail: a failed read is treated like a failed open
CapReadFailGivesUp ==
    /\ ~crashed
    /\ loc["cap"] = "run_loop"
    /\ pc["cap"] = "none"
    /\ running_
    /\ readfails < MaxFails
    /\ readfails' = readfails + 1
    /\ running_' = FALSE
    /\ pc' = [pc EXCEPT !["cap"] = "stop_enter"]
    /\ loc' = [loc EXCEPT !["cap"] = "run_ret"]
    /\ UNCHANGED <<qvars, hvars, arg, ret, nitems, pipe_running_, built,
                   cap_joined, wrk_joined, racy, published, nstarts, crashed, last_op, ovars>>
\* run, lines 52-58: while (running_), a read that fails: sleep 100 ms, continue
CapReadFail ==
    /\ ~crashed
    /\ loc["cap"] = "run_loop"
    /\ pc["cap"] = "none"
    /\ running_
    /\ readfails < MaxFails
    /\ readfails' = readfails + 1
    /\ UNCHANGED <<qvars, hvars, pc, arg, ret, nitems, pvars, last_op, ovars>>

\* run, lines 52-63: while (running_), a read that delivers a frame, buffer_.push(res)
CapReadPush ==
    /\ ~crashed
    /\ loc["cap"] = "run_loop"
    /\ pc["cap"] = "none"
    /\ running_
    /\ nitems < MaxFrames
    /\ nitems' = nitems + 1
    /\ arg' = [arg EXCEPT !["cap"] = nitems + 1]
    /\ pc' = [pc EXCEPT !["cap"] = "push_enter"]
    /\ readfails' = 0
    /\ UNCHANGED <<qvars, hvars, ret, pvars, last_op, ovars>>

\* run, lines 52, 70-72: running_ is false: leave the loop, cap.release(), buffer_.stop()
CapExit ==
    /\ ~crashed
    /\ loc["cap"] = "run_loop"
    /\ pc["cap"] = "none"
    /\ ~running_
    /\ pc' = [pc EXCEPT !["cap"] = "stop_enter"]
    /\ loc' = [loc EXCEPT !["cap"] = "run_ret"]
    /\ UNCHANGED <<qvars, hvars, arg, ret, nitems, pipe_running_, running_, built,
                   cap_joined, wrk_joined, racy, published, nstarts, crashed, lvars, ovars>>

\* worker loop, lines 178-180: while (pipe_running_) { ... buf_->pop(item).
\* pipe_running_ is a plain bool written by stop_pipeline under pipeline_mu_ and
\* read here without it: until the worker has synchronised with the writer it
\* may read the old value.
WrkCheck ==
    /\ ~crashed
    /\ loc["wrk"] = "w_check"
    /\ \E seen \in {pipe_running_} \cup (IF racy THEN {TRUE} ELSE {}) :
          IF seen
          THEN /\ pc' = [pc EXCEPT !["wrk"] = "pop_enter"]
               /\ loc' = [loc EXCEPT !["wrk"] = "w_got"]
          ELSE /\ loc' = [loc EXCEPT !["wrk"] = "done"]
               /\ UNCHANGED pc
    /\ UNCHANGED <<qvars, hvars, arg, ret, nitems, pipe_running_, running_, built,
                   cap_joined, wrk_joined, racy, published, nstarts, crashed, lvars, ovars>>

\* worker loop, lines 180-183: if (!buf_->pop(item)) break; infer, track, publish
WrkProcess ==
    /\ ~crashed
    /\ loc["wrk"] = "w_got"
    /\ pc["wrk"] = "none"
    /\ IF ret["wrk"].ok
       THEN /\ handed' = Append(handed, run(CapturedFrame(ret["wrk"].item)))
            /\ published' = Append(published, ret["wrk"].item)
            /\ loc' = [loc EXCEPT !["wrk"] = "w_check"]
       ELSE /\ loc' = [loc EXCEPT !["wrk"] = "done"]
            /\ UNCHANGED <<handed, published>>
    /\ ret' = [ret EXCEPT !["wrk"] = NoRet]
    /\ UNCHANGED <<qvars, hvars, pc, arg, nitems, pipe_running_, running_, built,
                   cap_joined, wrk_joined, racy, nstarts, crashed, lvars,
                   proc, vvars, evars, ivars, xvars, kvars, svars, wvars,
                   with_ort, ort_loads, cv_loads, use_ort_, ready_>>

\* the control thread has executed the critical section of the buf_->stop()
\* that follows its write of pipe_running_
CtlReleasedMu == ~(loc["ctl"] = "sp_streamer" /\ pc["ctl"] = "stop_enter")

PipeRest == <<nitems, loc, pipe_running_, running_, built, cap_joined,
              wrk_joined, published, nstarts, crashed, readfails, last_op, ovars>>

\* steps of the pipeline threads inside FrameBuffer member functions
CapPushEnter == ~crashed /\ PushEnter("cap") /\ UNCHANGED <<PipeRest, racy>>
CapPushNotify == ~crashed /\ PushNotify("cap") /\ UNCHANGED <<PipeRest, racy>>
\* locking mu_ after the control thread released it makes its write visible
WrkPopEnter ==
    /\ ~crashed
    /\ PopEnter("wrk")
    /\ racy' = (racy /\ ~CtlReleasedMu)
    /\ UNCHANGED PipeRest
WrkPopNotify == ~crashed /\ PopNotify("wrk") /\ UNCHANGED <<PipeRest, racy>>
\* a step of thread t inside FrameBuffer::stop
PStop(t) ==
    /\ ~crashed
    /\ StopEnter(t) \/ StopNotifyEmpty(t) \/ StopNotifyFull(t)
    /\ UNCHANGED <<PipeRest, racy>>
CtlBufferStop == PStop("ctl")
CapBufferStop == PStop("cap")
PSpuriousWake ==
    \E t \in {"cap", "wrk"} : ~crashed /\ SpuriousWake(t) /\ UNCHANGED <<PipeRest, racy>>

InitP ==
    /\ InitBuffer(DefaultCapacity)
    /\ InitThreads
    /\ InitPipe
    /\ InitVideo
    /\ InitPublisher
    /\ InitInfer
    /\ InitRest
    /\ InitModels(TRUE, TRUE)
    /\ InitPost
    /\ InitApp
    /\ InitMore
    /\ proc = "edge"

\* the steps each thread takes once it is scheduled; the calls the control layer
\* decides to make, the frames the source delivers and spurious wake-ups are not
\* among them
CtlSteps ==
    \/ StreamerStop
    \/ StreamerJoin
    \/ WorkerJoin
    \/ StopPipelineReset
    \/ CtlBufferStop

CapSteps ==
    \/ CapOpen
    \/ CapExit
    \/ CapPushEnter
    \/ CapPushNotify
    \/ CapBufferStop

WrkSteps ==
    \/ WrkCheck
    \/ WrkProcess
    \/ WrkPopEnter
    \/ WrkPopNotify

NextP ==
    \/ StartPipeline
    \/ StartPipelineNoop
    \/ StopPipelineUnbuilt
    \/ StopPipelineBegin
    \/ StreamerStop
    \/ StreamerJoin
    \/ WorkerJoin
    \/ StopPipelineReset
    \/ CapOpen
    \/ CapReadFail
    \/ CapReadPush
    \/ CapExit
    \/ WrkCheck
    \/ WrkProcess
    \/ CapPushEnter
    \/ CapPushNotify
    \/ WrkPopEnter
    \/ WrkPopNotify
    \/ CtlBufferStop
    \/ CapBufferStop
    \/ PSpuriousWake

SpecPipe == InitP /\ [][NextP]_vars

\* each OS thread keeps being scheduled
FairSpecPipe ==
    /\ InitP
    /\ [][NextP]_vars
    /\ WF_vars(CtlSteps)
    /\ WF_vars(CapSteps)
    /\ WF_vars(WrkSteps)

\* ------------------------------------------------ claims about the pipeline
RECURSIVE IsSubseq(_, _)
\* s can be obtained from t by deleting elements
IsSubseq(s, t) ==
    IF s = <<>> THEN TRUE
    ELSE IF t = <<>> THEN FALSE
    ELSE IF Head(s) = Head(t) THEN IsSubseq(Tail(s), Tail(t))
    ELSE IsSubseq(s, Tail(t))

\* the frames in the order the capture thread handed them to push
Captured == [i \in 1..nitems |-> i]

\* C7: with one capture thread and one worker, the frames handed to publish
\* are, in the same relative order, a subsequence of the frames the capture
\* thread pushed.
C7_CaptureOrder == IsSubseq(published, Captured)

\* three frames were published while a later frame is still queued
C7_Witness ==
    /\ Len(published) >= 3
    /\ queue_ # <<>>

InStopPipeline == loc["ctl"] \in {"sp_streamer", "sp_join_cap", "sp_join_wrk", "sp_reset"}

\* C10: while stop_pipeline is in progress the pipeline is never stuck: unless
\* the process was terminated, some thread can take a step, so that the joins
\* are reached and the call returns.
C10_StopPipelineReturns ==
    InStopPipeline => (crashed \/ ENABLED (CtlSteps \/ CapSteps \/ WrkSteps))

\* C10 as a temporal statement: a stop_pipeline call in progress eventually
\* returns (or the process was terminated).
C10_StopEventuallyReturns == InStopPipeline ~> (loc["ctl"] = "idle" \/ crashed)

\* RtspStreamer::stop(), called by stop_pipeline, has returned
StreamerStopReturned == loc["ctl"] \in {"sp_join_wrk", "sp_reset"}

\* C11: whenever RtspStreamer::stop() has returned the capture thread has been
\* joined, also after the capture thread ended on its own on a failed open, and
\* the process is never terminated by the destruction of an un-joined thread.
C11_StopJoinsCapture ==
    /\ StreamerStopReturned => cap_joined
    /\ ~crashed

\* C12: after a failed open the capture thread has pushed nothing and stops the
\* queue, every pop of the worker returns not-ok, nothing is published, and the
\* worker leaves its loop (as long as the process lives).
C12_OpenFailureStopsWorker ==
    /\ [](loc["cap"] = "run_failed" =>
            /\ enq = <<>>
            /\ published = <<>>
            /\ (loc["wrk"] = "w_got" /\ pc["wrk"] = "none") => ~ret["wrk"].ok
            /\ CapDone => (stopped_ /\ pc["wrk"] # "pop_wait"))
    /\ (loc["cap"] = "run_failed") ~> (WrkDone \/ crashed)

\* the open failed, the queue was stopped, the worker's pop returned not-ok and
\* the worker has left its loop
C12_Witness ==
    /\ loc["cap"] = "run_failed"
    /\ CapDone
    /\ pop_failed
    /\ WrkDone
    /\ pipe_running_

\* no stop of the pipeline or of the streamer has been requested
NoStopRequested == pipe_running_ /\ running_

\* C13: a failed read changes nothing but the position in the loop: after any
\* number of consecutive failed reads, with no stop requested, the capture
\* thread is still in its loop, the queue is not stopped, and the next frame
\* that is read is handed to push.
C13_ReadFailureRetries ==
    /\ [][readfails' > readfails =>
             UNCHANGED <<queue_, stopped_, max_items_, pc, loc, running_, pipe_running_>>]_vars
    /\ []((readfails > 0 /\ NoStopRequested) =>
             /\ loc["cap"] = "run_loop"
             /\ pc["cap"] = "none"
             /\ ~stopped_
             /\ nitems < MaxFrames => ENABLED CapReadPush)
    /\ [][(readfails > 0 /\ readfails' = 0 /\ nstarts' = nstarts) =>
             /\ pc'["cap"] = "push_enter"
             /\ arg'["cap"] = nitems'
             /\ loc'["cap"] = "run_loop"]_vars

\* frames were read and pushed, then the reads failed MaxFails times in a row,
\* no stop was requested, and the capture thread is still in its loop
C13_Witness ==
    /\ readfails = MaxFails
    /\ NoStopRequested
    /\ nitems >= 2
    /\ loc["cap"] = "run_loop"

\* the frames the queue accepted before stop() was first called on it
AcceptedBeforeStop == {enq[i] : i \in 1..(IF stopped_ THEN enqAtStop ELSE Len(enq))}

\* C16: the worker has left its loop only after a pop reported not-ok, and by
\* then every frame the queue accepted before stop() was called was published.
C16_WorkerDrainsQueue ==
    WrkDone => (pop_failed /\ AcceptedBeforeStop \subseteq Range(published))

\* ------------------------------------------ PostProcessor (video-core)
\* std::max(a, b) and std::min(a, b)
StdMax(a, b) == IF a < b THEN b ELSE a
StdMin(a, b) == IF b < a THEN b ELSE a

\* the weights of fuse_risk in hundredths: 0.7f, 0.8f, 0.75f; a confidence
\* times a weight in hundredths is a risk
ObjWeight == 70
ActWeight == 80
AudWeight == 75
\* 0.5f and 0.05f as risks
ZoneRisk == 500000
LowRisk == 50000

RECURSIVE FuseConfs(_, _, _, _)
\* for (auto& x : xs) r = std::max(r, x.conf * w), from index i on
FuseConfs(xs, i, r, w) ==
    IF i > Len(xs) THEN r
    ELSE FuseConfs(xs, i + 1, StdMax(r, xs[i].conf * w), w)

RECURSIVE FuseAud(_, _, _)
\* for (auto& f : aflags) if (f.name == "raised_voice") r = std::max(r, 0.75f * f.conf)
FuseAud(fs, i, r) ==
    IF i > Len(fs) THEN r
    ELSE IF fs[i].name = "raised_voice"
         THEN FuseAud(fs, i + 1, StdMax(r, AudWeight * fs[i].conf))
         ELSE FuseAud(fs, i + 1, r)

\* faulty variant of fuse_risk: the result is not clamped
fuse_riskUnclamped(objs, acts, zs, aflags) ==
    LET r3 == FuseAud(aflags, 1, FuseConfs(acts, 1, FuseConfs(objs, 1, 0, ObjWeight), ActWeight))
    IN IF zs # <<>> THEN StdMax(r3, ZoneRisk) ELSE r3
\* PostProcessor::Impl::fuse_risk
fuse_risk(objs, acts, zs, aflags) ==
    LET r3 == FuseAud(aflags, 1, FuseConfs(acts, 1, FuseConfs(objs, 1, 0, ObjWeight), ActWeight))
        r4 == IF zs # <<>> THEN StdMax(r3, ZoneRisk) ELSE r3
    IN StdMin(r4, RiskOne)

\* faulty variant of level_local_for: the comparisons are strict
level_local_forStrict(risk, med, high) ==
    IF risk > high THEN "high"
    ELSE IF risk > med THEN "medium"
    ELSE IF risk > LowRisk THEN "low"
    ELSE "none"
\* process_frame, lines 58-61: level_local from risk_local and the thresholds
level_local_for(risk, med, high) ==
    IF risk >= high THEN "high"
    ELSE IF risk >= med THEN "medium"
    ELSE IF risk >= LowRisk THEN "low"
    ELSE "none"

\* ------------------------------------------ VideoPipeline (video-core)
\* bounds: frames the loop processes per thread, loop threads launched
MaxVideoFrames == 2
MaxVideoStarts == 2

\* what VideoPipeline never touches
EdgeVars == <<qvars, hvars, pc, arg, ret, nitems, pvars, lvars, proc, evars, ivars, xvars, gvars,
    svars, wvars>>

\* VideoPipeline::start, line 61, running already set: exchange returns true
VideoStartNoop ==
    /\ proc = "core"
    /\ ~crashed
    /\ vloc = "idle"
    /\ running
    /\ vlast_op' = "start_noop"
    /\ UNCHANGED <<EdgeVars, kvars, running, th, frame_id, vloc, vstarts>>

\* VideoPipeline::start, lines 61-62: running.exchange(true) was false, the
\* thread is assigned to th (std::terminate if th is still joinable)
VideoStart ==
    /\ proc = "core"
    /\ ~crashed
    /\ vloc = "idle"
    /\ ~running
    /\ vstarts < MaxVideoStarts
    /\ running' = TRUE
    /\ vstarts' = vstarts + 1
    /\ vlast_op' = "start"
    /\ IF th # "none"
       THEN /\ crashed' = TRUE
            /\ UNCHANGED th
       ELSE /\ th' = "v_open"
            /\ UNCHANGED crashed
    /\ UNCHANGED <<qvars, hvars, pc, arg, ret, nitems, loc, pipe_running_, running_,
                   built, cap_joined, wrk_joined, racy, published, nstarts,
                   lvars, proc, evars, ivars, xvars, gvars, kvars, svars, wvars,
                   frame_id, vloc>>

\* VideoPipeline::stop, line 66, running not set: exchange returns false
VideoStopNoop ==
    /\ proc = "core"
    /\ ~crashed
    /\ vloc = "idle"
    /\ ~running
    /\ vlast_op' = "stop_noop"
    /\ UNCHANGED <<EdgeVars, kvars, running, th, frame_id, vloc, vstarts>>

\* VideoPipeline::stop, line 66: running.exchange(false) was true
VideoStopBegin ==
    /\ proc = "core"
    /\ ~crashed
    /\ vloc = "idle"
    /\ running
    /\ running' = FALSE
    /\ vloc' = "v_join"
    /\ vlast_op' = "stop"
    /\ UNCHANGED <<EdgeVars, kvars, th, frame_id, vstarts>>

\* VideoPipeline::stop, line 67: if (th.joinable()) th.join();
VideoJoin ==
    /\ ~crashed
    /\ vloc = "v_join"
    /\ th \in {"none", "v_ret"}
    /\ th' = "none"
    /\ vloc' = "idle"
    /\ UNCHANGED <<EdgeVars, kvars, running, frame_id, vstarts, vlast_op>>

\* Impl::loop, lines 30-39: open the stream; return if that fails
VideoOpen ==
    /\ ~crashed
    /\ th = "v_open"
    /\ \E opened \in BOOLEAN :
          th' = IF opened THEN "v_loop" ELSE "v_ret"
    /\ frame_id' = 0
    /\ UNCHANGED <<EdgeVars, kvars, running, vloc, vstarts, vlast_op>>

\* Impl::loop, lines 41-46: a read that fails: sleep 10 ms, continue
VideoReadFail ==
    /\ ~crashed
    /\ th = "v_loop"
    /\ running
    /\ UNCHANGED vars

\* the thresholds of a call before the atomics are loaded
Unloaded == [obj_conf |-> -1, act_conf |-> -1, risk_medium |-> -1, risk_high |-> -1]
ThresholdNames == {"obj_conf", "act_conf", "risk_medium", "risk_high"}

\* Impl::loop, lines 41-47: a frame is read: frame_id++
VideoFrame ==
    /\ ~crashed
    /\ th = "v_loop"
    /\ running
    /\ frame_id < MaxVideoFrames
    /\ frame_id' = frame_id + 1
    /\ th' = "v_args"
    /\ fargs' = Unloaded
    /\ ev' = [NoEvent EXCEPT !.frame_id = frame_id + 1]
    /\ fstart' = Len(applied)
    /\ UNCHANGED <<EdgeVars, running, vloc, vstarts, vlast_op,
                   floc, zones, zwriting, thresh, events, uloc, uarg, nupd, applied>>

\* Impl::loop, lines 50-51: one of obj_thresh.load(), act_thresh.load(),
\* risk_med.load(), risk_high.load(); the arguments of a call are evaluated in
\* an order the compiler chooses
VideoLoad(a) ==
    /\ ~crashed
    /\ th = "v_args"
    /\ fargs[a] = -1
    /\ fargs' = [fargs EXCEPT ![a] = thresh[a]]
    /\ UNCHANGED <<EdgeVars, vvars, ev, floc, zones, zwriting, thresh, events,
                   uloc, uarg, nupd, applied, fstart>>

\* what a copy of zones can hold when update_policy assigns zones meanwhile:
\* the list before, the list after, or a part of either
RacyZones(old, new) ==
    {SubSeq(old, 1, k) : k \in 0..Len(old)} \cup {SubSeq(new, 1, k) : k \in 0..Len(new)}

\* the copy ev.zones = d_->zones runs while update_policy assigns zones: the
\* two accesses race; the copy holds some mix of the lists, or the thread
\* reads released memory and the process dies
ZonesRace ==
    \/ /\ \E z \in RacyZones(zones, uarg.zones) : ev' = [ev EXCEPT !.zones = z]
       /\ th' = "v_copy"
       /\ UNCHANGED crashed
    \/ /\ th' = "v_fault"
       /\ crashed' = TRUE
       /\ UNCHANGED ev

\* the state of the edge-node program without crashed
EdgeVarsLive == <<qvars, hvars, pc, arg, ret, nitems, loc, pipe_running_, running_, built,
                  cap_joined, wrk_joined, racy, published, nstarts, lvars, proc,
                  evars, ivars, xvars, gvars, svars, wvars>>

\* Impl::loop, line 49: process_frame is entered with the four thresholds;
\* process_frame, line 55: the copy ev.zones = d_->zones begins
VideoZonesBegin ==
    /\ ~crashed
    /\ th = "v_args"
    /\ \A a \in ThresholdNames : fargs[a] # -1
    /\ IF zwriting
       THEN ZonesRace
       ELSE /\ ev' = [ev EXCEPT !.zones = zones]
            /\ th' = "v_copy"
            /\ UNCHANGED crashed
    /\ UNCHANGED <<EdgeVarsLive, running, frame_id, vloc, vstarts, vlast_op,
                   fargs, floc, zones, zwriting, thresh, events, uloc, uarg, nupd,
                   applied, fstart>>

\* process_frame, lines 55-63: the copy ends; risk_local and level_local
VideoClassify ==
    /\ ~crashed
    /\ th = "v_copy"
    /\ LET r == fuse_risk(ev.objects, ev.actions, ev.zones, ev.audio_flags)
       IN ev' = [ev EXCEPT !.risk_local = r,
                           !.level_local = level_local_for(r, fargs.risk_medium, fargs.risk_high)]
    /\ th' = "v_push"
    /\ UNCHANGED <<EdgeVars, running, frame_id, vloc, vstarts, vlast_op,
                   fargs, floc, zones, zwriting, thresh, events, uloc, uarg, nupd,
                   applied, fstart>>

\* Impl::loop, line 52: events.push(res)
VideoPush ==
    /\ ~crashed
    /\ th = "v_push"
    /\ events' = Append(events, [ev |-> ev, used |-> fargs, after |-> fstart, upto |-> nupd])
    /\ th' = "v_loop"
    /\ UNCHANGED <<EdgeVars, running, frame_id, vloc, vstarts, vlast_op,
                   ev, fargs, floc, zones, zwriting, thresh, uloc, uarg, nupd,
                   applied, fstart>>

\* Impl::loop, lines 41, 54: running is false: the loop ends, the thread returns
VideoExit ==
    /\ ~crashed
    /\ th = "v_loop"
    /\ ~running
    /\ th' = "v_ret"
    /\ UNCHANGED <<EdgeVars, kvars, running, frame_id, vloc, vstarts, vlast_op>>

NextVideo ==
    \/ \E a \in ThresholdNames : VideoLoad(a)
    \/ VideoZonesBegin
    \/ VideoClassify
    \/ VideoPush
    \/ VideoStart
    \/ VideoStartNoop
    \/ VideoStopNoop
    \/ VideoStopBegin
    \/ VideoJoin
    \/ VideoOpen
    \/ VideoReadFail
    \/ VideoFrame
    \/ VideoExit

\* ------------------- both lifecycles: edge-node ServerApp or video-core
\* one of the two programs runs
InitLife ==
    /\ InitBuffer(DefaultCapacity)
    /\ InitThreads
    /\ InitPipe
    /\ InitVideo
    /\ InitPublisher
    /\ InitInfer
    /\ InitRest
    /\ InitModels(TRUE, TRUE)
    /\ InitPost
    /\ InitApp
    /\ InitMore
    /\ proc \in {"edge", "core"}

NextLife ==
    \/ NextP
    \/ NextVideo

SpecLife == InitLife /\ [][NextLife]_vars

\* ------------------------------------------------ claims about the lifecycle
\* the step is a call of ServerApp::start_pipeline / stop_pipeline
StartCallStep == last_op' \in {"start", "start_noop"} /\ last_op' # last_op
StopCallStep == last_op' \in {"stop", "stop_noop"} /\ last_op' # last_op
\* the step is a call of VideoPipeline::start / stop
VideoStartCallStep == vlast_op' \in {"start", "start_noop"} /\ vlast_op' # vlast_op
VideoStopCallStep == vlast_op' \in {"stop", "stop_noop"} /\ vlast_op' # vlast_op

\* C14: a start call on a running pipeline changes nothing (queue, threads,
\* flags and components of ServerApp, RtspStreamer and VideoPipeline stay as
\* they are), and a capture, worker or loop thread is only ever created while
\* none exists, so there is at most one of each.
C14_StartIdempotent ==
    /\ [][(StartCallStep /\ pipe_running_) =>
             UNCHANGED <<qvars, hvars, pc, arg, ret, nitems, pvars, readfails>>]_vars
    /\ [][(VideoStartCallStep /\ running) =>
             UNCHANGED <<running, th, frame_id, vloc, vstarts, crashed>>]_vars
    /\ [][nstarts' # nstarts =>
             (~built /\ ~running_ /\ loc["cap"] = "off" /\ loc["wrk"] = "off")]_vars
    /\ [][vstarts' # vstarts => th = "none"]_vars

\* start_pipeline was called on a running pipeline that has frames queued and
\* frames published
C14_Witness ==
    /\ last_op = "start_noop"
    /\ pipe_running_
    /\ running_
    /\ queue_ # <<>>
    /\ published # <<>>

\* C15: a stop call on a pipeline that is stopped or was never started changes
\* nothing: nothing is joined, released or reset a second time, for ServerApp
\* (and the RtspStreamer it owns) and for VideoPipeline.
C15_StopIdempotent ==
    /\ [][(StopCallStep /\ ~built) =>
             UNCHANGED <<qvars, hvars, pc, arg, ret, nitems, pvars, readfails>>]_vars
    /\ [][(VideoStopCallStep /\ ~running) =>
             UNCHANGED <<running, th, frame_id, vloc, vstarts, crashed>>]_vars
    /\ [](~built => ~pipe_running_)

\* stop_pipeline was called again after a stop that ran to its end
C15_Witness ==
    /\ last_op = "stop_noop"
    /\ nstarts >= 1
    /\ ~built
    /\ cap_joined
    /\ wrk_joined

\* ------------------------------------------------ EventPublisher (edge-node)
\* bound: publish calls made
MaxPublish == 2

\* detection lists handed to publish
DetsInputs ==
    { <<>>,
      <<Detection(LblGun)>>,
      <<Detection(LblPerson), Detection(LblGun)>>,
      <<Detection(LblKnife), Detection(LblGun)>>,
      <<Detection(LblGun), Detection(LblScissors), Detection(LblKnife)>> }

\* the text of the file is a sequence of tokens: punctuation and keys (sym),
\* quoted strings (str) and numbers (num)
Sym(x) == [k |-> "sym", s |-> x, n |-> 0, l |-> <<>>]
Str(x) == [k |-> "str", s |-> "", n |-> 0, l |-> x]
Num(x) == [k |-> "num", s |-> "", n |-> x, l |-> <<>>]

\* std::fixed << std::setprecision(3): the seconds rounded to milliseconds
Fixed3(us) == (us + 500) \div 1000

\* cv::getTickCount() / cv::getTickFrequency() of the frame with number id
TimestampOf(id) == id * 1000600

RECURSIVE FormatLabelsFrom(_, _, _)
\* publish, lines 21-27: the loop over result.dets from index i on
FormatLabelsFrom(dets, i, first) ==
    IF i > Len(dets) THEN <<>>
    ELSE IF dets[i].level # "HIGH" THEN FormatLabelsFrom(dets, i + 1, first)
    ELSE (IF first THEN <<>> ELSE <<Sym(",")>>)
         \o <<Str(dets[i].label)>> \o FormatLabelsFrom(dets, i + 1, FALSE)

\* publish, lines 16-29: oss.str()
FormatAlert(r) ==
    <<Sym("{"), Sym("type:high_danger_alert"), Sym(","),
      Sym("timestamp:"), Num(Fixed3(r.timestamp_us)), Sym(","), Sym("labels:[")>>
    \o FormatLabelsFrom(r.dets, 1, TRUE)
    \o <<Sym("]"), Sym("}"), Sym("\n")>>

\* faulty variant of IsAlert: MEDIUM frames are persisted too
IsAlertMedium(r) == r.frame_level # "LOW"
\* publish, line 14: if (result.frame_level != DangerLevel::HIGH) return;
IsAlert(r) == r.frame_level = "HIGH"

\* what EventPublisher never touches
NonPubVars == <<qvars, hvars, pc, arg, ret, nitems, pvars, lvars, proc, vvars, ivars, xvars, gvars, kvars,
    svars, wvars>>

\* publish, lines 13-29: return for a frame that is not HIGH, else build the line
PubCall(t) ==
    /\ ppc[t] = "idle"
    /\ npub < MaxPublish
    /\ npub' = npub + 1
    /\ \E lvl \in DangerLevels, d \in DetsInputs :
          LET r == [id |-> npub + 1, frame_level |-> lvl, dets |-> d,
                    timestamp_us |-> TimestampOf(npub + 1)]
          IN  IF ~IsAlert(r)
              THEN /\ done' = Append(done, [frame |-> r, opened |-> FALSE])
                   /\ UNCHANGED <<ppc, pframe, pline>>
              ELSE /\ pframe' = [pframe EXCEPT ![t] = r]
                   /\ pline' = [pline EXCEPT ![t] = FormatAlert(r)]
                   /\ ppc' = [ppc EXCEPT ![t] = "lock"]
                   /\ UNCHANGED done
    /\ UNCHANGED <<NonPubVars, file, file0, writable, pub_mu_>>

\* faulty variant of PubLock: the mutex is not waited for
PubLockFree(t) ==
    /\ ppc[t] = "lock"
    /\ pub_mu_' = t
    /\ ppc' = [ppc EXCEPT ![t] = "open"]
    /\ UNCHANGED <<NonPubVars, file, file0, writable, pframe, pline, done, npub>>
\* publish, lines 31-39: std::lock_guard lock(mu_); create_directories, best effort
PubLock(t) ==
    /\ ppc[t] = "lock"
    /\ pub_mu_ = "free"
    /\ pub_mu_' = t
    /\ ppc' = [ppc EXCEPT ![t] = "open"]
    /\ UNCHANGED <<NonPubVars, file, file0, writable, pframe, pline, done, npub>>

\* faulty variant of PubOpen: a failed open raises out of publish
PubOpenRaises(t) ==
    /\ ppc[t] = "open"
    /\ IF writable
       THEN /\ ppc' = [ppc EXCEPT ![t] = "write"]
            /\ UNCHANGED <<pub_mu_, done>>
       ELSE /\ ppc' = [ppc EXCEPT ![t] = "raised"]
            /\ pub_mu_' = "free"
            /\ done' = Append(done, [frame |-> pframe[t], opened |-> FALSE])
    /\ UNCHANGED <<NonPubVars, file, file0, writable, pframe, pline, npub>>
\* publish, lines 40-44: std::ofstream f(path_, std::ios::app); if (!f) warn and
\* return, which releases mu_
PubOpen(t) ==
    /\ ppc[t] = "open"
    /\ IF writable
       THEN /\ ppc' = [ppc EXCEPT ![t] = "write"]
            /\ UNCHANGED <<pub_mu_, done>>
       ELSE /\ ppc' = [ppc EXCEPT ![t] = "idle"]
            /\ pub_mu_' = "free"
            /\ done' = Append(done, [frame |-> pframe[t], opened |-> FALSE])
    /\ UNCHANGED <<NonPubVars, file, file0, writable, pframe, pline, npub>>

\* the tokens of a line that may reach the file before the stream is closed
EarlyChunks(line) == {0, 5}

\* publish, line 45: f << oss.str(); the stream buffer may pass a first part of
\* the text to the file at once
PubWrite(t) ==
    /\ ppc[t] = "write"
    /\ \E k \in EarlyChunks(pline[t]) :
          /\ file' = file \o SubSeq(pline[t], 1, k)
          /\ pline' = [pline EXCEPT ![t] = SubSeq(pline[t], k + 1, Len(pline[t]))]
    /\ ppc' = [ppc EXCEPT ![t] = "flush"]
    /\ UNCHANGED <<NonPubVars, file0, writable, pub_mu_, pframe, done, npub>>

\* publish, line 46: ~ofstream writes the rest and closes, ~lock_guard releases
\* mu_, return
PubFlush(t) ==
    /\ ppc[t] = "flush"
    /\ file' = file \o pline[t]
    /\ pline' = [pline EXCEPT ![t] = <<>>]
    /\ done' = Append(done, [frame |-> pframe[t], opened |-> TRUE])
    /\ pframe' = [pframe EXCEPT ![t] = NoFrame]
    /\ pub_mu_' = "free"
    /\ ppc' = [ppc EXCEPT ![t] = "idle"]
    /\ UNCHANGED <<NonPubVars, file0, writable, npub>>

\* the environment makes the path unwritable, or writable again
EnvToggle ==
    /\ writable' = ~writable
    /\ UNCHANGED <<NonPubVars, file, file0, pub_mu_, ppc, pframe, pline, done, npub>>

\* an alert line written by an earlier run
OldAlert ==
    FormatAlert([id |-> 0, frame_level |-> "HIGH", dets |-> <<Detection(LblKnife)>>,
                 timestamp_us |-> 0])

InitPub ==
    /\ InitBuffer(DefaultCapacity)
    /\ InitThreads
    /\ InitPipe
    /\ InitVideo
    /\ proc = "edge"
    /\ \E f0 \in {<<>>, OldAlert} : InitPublisherOn(f0)
    /\ InitInfer
    /\ InitRest
    /\ InitModels(TRUE, TRUE)
    /\ InitPost
    /\ InitApp
    /\ InitMore

PubCalls == \E t \in PubThreads : PubCall(t)
PubLocks == \E t \in PubThreads : PubLock(t)
PubOpens == \E t \in PubThreads : PubOpen(t)
PubWrites == \E t \in PubThreads : PubWrite(t)
PubFlushes == \E t \in PubThreads : PubFlush(t)

NextPub ==
    \/ PubCalls
    \/ PubLocks
    \/ PubOpens
    \/ PubWrites
    \/ PubFlushes
    \/ EnvToggle

SpecPublish == InitPub /\ [][NextPub]_vars

\* ------------------------------------------- claims about EventPublisher
IsPrefix(a, b) == Len(a) <= Len(b) /\ SubSeq(b, 1, Len(a)) = a

\* what the file has gained since the publisher was constructed
Gained == SubSeq(file, Len(file0) + 1, Len(file))

RECURSIVE SplitLines(_, _, _)
\* the complete lines of a text (without their line ends) and the unfinished rest
SplitLines(text, lines, cur) ==
    IF text = <<>> THEN [lines |-> lines, rest |-> cur]
    ELSE IF Head(text) = Sym("\n") THEN SplitLines(Tail(text), Append(lines, cur), <<>>)
    ELSE SplitLines(Tail(text), lines, Append(cur, Head(text)))

GainedLines == SplitLines(Gained, <<>>, <<>>).lines
GainedRest == SplitLines(Gained, <<>>, <<>>).rest

\* a JSON list body: strings separated by single commas
WellFormedList(m) ==
    \/ m = <<>>
    \/ /\ Len(m) % 2 = 1
       /\ \A i \in 1..Len(m) : IF i % 2 = 1 THEN m[i].k = "str" ELSE m[i] = Sym(",")

\* the alert record a line holds, as a reader of the JSONL file sees it
ParseAlert(line) ==
    LET n == Len(line)
        m == SubSeq(line, 8, n - 2)
    IN  IF /\ n >= 9
           /\ SubSeq(line, 1, 4) = <<Sym("{"), Sym("type:high_danger_alert"), Sym(","),
                                      Sym("timestamp:")>>
           /\ line[5].k = "num"
           /\ SubSeq(line, 6, 7) = <<Sym(","), Sym("labels:[")>>
           /\ SubSeq(line, n - 1, n) = <<Sym("]"), Sym("}")>>
           /\ WellFormedList(m)
        THEN [ok |-> TRUE, labels |-> [i \in 1..((Len(m) + 1) \div 2) |-> m[2 * i - 1].l]]
        ELSE [ok |-> FALSE, labels |-> <<>>]

\* the labels of the HIGH-level detections of a frame, in detection order
HighLevelLabels(dets) ==
    LET IsHigh(d) == d.level = "HIGH"
        sel == SelectSeq(dets, IsHigh)
    IN  [i \in 1..Len(sel) |-> sel[i].label]

\* the returned publish calls of HIGH frames whose open succeeded
WrittenCalls ==
    LET Wrote(c) == c.frame.frame_level = "HIGH" /\ c.opened
    IN  SelectSeq(done, Wrote)

Quiescent == \A t \in PubThreads : ppc[t] = "idle"

\* C17: the file only grows at its end; once the publish calls have returned
\* it has gained exactly one line per HIGH frame whose open succeeded, in the
\* order of the calls, nothing for LOW and MEDIUM frames, and the labels list
\* of each line is the list of labels of that frame's HIGH-level detections.
C17_AlertOnlyOnHigh ==
    /\ [][IsPrefix(file, file')]_vars
    /\ [](\A i \in 1..Len(done) : done[i].opened => done[i].frame.frame_level = "HIGH")
    /\ [](Quiescent =>
            /\ GainedRest = <<>>
            /\ Len(GainedLines) = Len(WrittenCalls)
            /\ \A i \in 1..Len(GainedLines) :
                  ParseAlert(GainedLines[i]) =
                      [ok |-> TRUE, labels |-> HighLevelLabels(WrittenCalls[i].frame.dets)])

\* two alerts were appended to an existing file, one of them for a frame with
\* two HIGH labels and a MEDIUM one between them, and a LOW or MEDIUM frame
\* would have been the other call
C17_Witness ==
    /\ Quiescent
    /\ file0 # <<>>
    /\ Len(done) = 2
    /\ Len(WrittenCalls) = 1
    /\ done[1].frame.frame_level = "MEDIUM"
    /\ Len(done[1].frame.dets) = 1
    /\ Len(done[2].frame.dets) = 3
    /\ done[2].opened

\* C18: with concurrent callers the file is at every moment the complete lines
\* of the calls that have written, each exactly the text of its record and
\* each once, followed by nothing but the part already written by the thread
\* that holds mu_.
C18_WritesSerialized ==
    /\ Len(GainedLines) = Len(WrittenCalls)
    /\ \A i \in 1..Len(GainedLines) :
          Append(GainedLines[i], Sym("\n")) = FormatAlert(WrittenCalls[i].frame)
    /\ \/ GainedRest = <<>>
       \/ \E t \in PubThreads :
            /\ pub_mu_ = t
            /\ ppc[t] = "flush"
            /\ GainedRest \o pline[t] = FormatAlert(pframe[t])

\* one thread is in the middle of its write while the other waits for mu_
C18_Witness ==
    \E t, u \in PubThreads :
        /\ ppc[t] = "flush"
        /\ GainedRest # <<>>
        /\ ppc[u] = "lock"

\* C19: a publish whose open fails returns without writing and without
\* raising, the mutex is free again, the caller can publish the next frame,
\* and a HIGH frame published with the path writable again is appended.
C19_OpenFailureSwallowed ==
    /\ [][\A t \in PubThreads :
             (ppc[t] = "open" /\ ~writable /\ ppc'[t] # "open") =>
                 (file' = file /\ ppc'[t] = "idle" /\ pub_mu_' = "free")]_vars
    /\ [](\A t \in PubThreads : ppc[t] \in {"idle", "lock", "open", "write", "flush"})
    /\ [](\A t \in PubThreads : (ppc[t] = "idle" /\ npub < MaxPublish) => ENABLED PubCall(t))
    /\ [][\A t \in PubThreads :
             (ppc[t] = "flush" /\ ppc'[t] = "idle") =>
                 /\ IsPrefix(file, file')
                 /\ SubSeq(file', Len(file') - Len(FormatAlert(pframe[t])) + 1, Len(file'))
                        = FormatAlert(pframe[t])]_vars

\* the open failed for a HIGH frame, the next HIGH frame found the path
\* writable again and its record is in the file
C19_Witness ==
    /\ Quiescent
    /\ Len(done) = 2
    /\ done[1].frame.frame_level = "HIGH"
    /\ ~done[1].opened
    /\ done[2].opened
    /\ Len(GainedLines) = 1

\* ----------------------------------------------- InferenceEngine (edge-node)
\* bound: detections per frame
MaxDets == 4

\* the labels the model's classes carry
ClassLabels == {LblGun, LblScissors, LblPerson}

\* the detection lists the candidate loop can build: one Detection per
\* candidate that passes the threshold, its level from level_for_label
DetLists == UNION {[1..k -> {Detection(l) : l \in ClassLabels}] : k \in 0..MaxDets}

\* what InferenceEngine::run never touches
NonInferVars == <<qvars, hvars, pc, arg, ret, nitems, pvars, lvars, proc, vvars, evars, xvars, gvars, kvars,
    svars, wvars>>

\* run, line 546, and run_opencv, line 714: return input
InferPassThrough ==
    /\ iloc = "run"
    /\ iloc' = "done"
    /\ UNCHANGED <<NonInferVars, out_dets, out_level>>

\* run_opencv, lines 690-765 (run_ort, lines 556-654): output.dets.clear(), one
\* push_back per candidate that passes the threshold
InferDetect ==
    /\ iloc = "run"
    /\ \E ds \in DetLists : out_dets' = ds
    /\ iloc' = "level"
    /\ UNCHANGED <<NonInferVars, out_level>>

\* run_opencv, lines 766-775 (run_ort, lines 656-665): frame_level
InferLevel ==
    /\ iloc = "level"
    /\ out_level' = FrameLevelFrom(out_dets, 1, "LOW")
    /\ iloc' = "done"
    /\ UNCHANGED <<NonInferVars, out_dets>>

\* the worker calls run for the next frame the queue hands out
InferNextFrame ==
    /\ iloc = "done"
    /\ out_dets' = <<>>
    /\ out_level' = "LOW"
    /\ iloc' = "run"
    /\ UNCHANGED NonInferVars

InitI ==
    /\ InitBuffer(DefaultCapacity)
    /\ InitThreads
    /\ InitPipe
    /\ InitVideo
    /\ InitPublisher
    /\ InitInfer
    /\ InitRest
    /\ InitModels(TRUE, TRUE)
    /\ InitPost
    /\ InitApp
    /\ InitMore
    /\ proc = "edge"

NextInfer ==
    \/ InferPassThrough
    \/ InferDetect
    \/ InferLevel
    \/ InferNextFrame

SpecInfer == InitI /\ [][NextInfer]_vars

\* ------------------------------------------ claims about InferenceEngine
\* HIGH > MEDIUM > LOW
Severity(lvl) == IF lvl = "HIGH" THEN 2 ELSE IF lvl = "MEDIUM" THEN 1 ELSE 0

\* the largest severity in a set of detections, LOW for the empty set
MaxSeverity(D) ==
    IF D = {} THEN 0
    ELSE CHOOSE m \in {Severity(d.level) : d \in D} :
             \A d \in D : Severity(d.level) <= m

\* C20: when run returns, frame_level is the maximum severity among the
\* detections of the frame; it depends on the set of detections only, not on
\* their order, and is LOW for an empty list.
C20_FrameLevelIsMax ==
    iloc = "done" =>
        /\ out_level \in DangerLevels
        /\ Severity(out_level) = MaxSeverity(Range(out_dets))
        /\ out_dets = <<>> => out_level = "LOW"

\* a MEDIUM detection is followed by LOW ones and no HIGH one is present
C20_Witness ==
    /\ iloc = "done"
    /\ Len(out_dets) = MaxDets
    /\ out_dets[1].level = "LOW"
    /\ out_dets[2].level = "MEDIUM"
    /\ out_dets[3].level = "LOW"
    /\ out_dets[4].level = "LOW"
    /\ out_level = "MEDIUM"

\* ------------------------------------- InferenceEngine::level_for_label
\* labels a model's class table can carry, in lower case; cls_7 is the label
\* of a class index outside the table
LabelWords ==
    { <<"k", "n", "i", "f", "e">>,
      <<"g", "u", "n">>,
      <<"p", "i", "s", "t", "o", "l">>,
      <<"r", "i", "f", "l", "e">>,
      <<"r", "e", "v", "o", "l", "v", "e", "r">>,
      <<"f", "i", "r", "e", "a", "r", "m">>,
      <<"s", "c", "i", "s", "s", "o", "r", "s">>,
      <<"p", "e", "r", "s", "o", "n">>,
      <<"g", "u", "n", "s">>,
      <<"h", "a", "n", "d", "g", "u", "n">>,
      <<"c", "l", "s", "_", "7">> }

\* the upper-case letter of a lower-case letter, every other character kept
toupper(c) ==
    IF \E i \in 1..Len(LowerCase) : LowerCase[i] = c
    THEN UpperCase[CHOOSE i \in 1..Len(LowerCase) : LowerCase[i] = c]
    ELSE c

\* a word with the letters at the positions U in upper case
Cased(w, U) == [i \in 1..Len(w) |-> IF i \in U THEN toupper(w[i]) ELSE w[i]]

\* every spelling of the label words in upper and lower case
Labels == UNION { {Cased(w, U) : U \in SUBSET (1..Len(w))} : w \in LabelWords }

\* what level_for_label never touches
NonLabelVars == <<qvars, hvars, pc, arg, ret, nitems, pvars, lvars, proc, vvars, evars, ivars, gvars, kvars, svars, wvars,
                  cloc, use_onnxruntime, names_file, class_names_, best_cls>>

\* level_for_label(label) is called and returns
LabelLevel ==
    /\ lbl_level = "none"
    /\ lbl_level' = level_for_label(lbl)
    /\ UNCHANGED <<NonLabelVars, lbl>>

\* the next candidate's label is looked up
LabelNext ==
    /\ lbl_level # "none"
    /\ \E l \in Labels : lbl' = l
    /\ lbl_level' = "none"
    /\ UNCHANGED NonLabelVars

InitLabel ==
    /\ InitBuffer(DefaultCapacity)
    /\ InitThreads
    /\ InitPipe
    /\ InitVideo
    /\ InitPublisher
    /\ InitInfer
    /\ InitNoCtor
    /\ InitModels(TRUE, TRUE)
    /\ InitPost
    /\ InitApp
    /\ InitMore
    /\ proc = "edge"
    /\ lbl \in Labels
    /\ lbl_level = "none"

NextLabel ==
    \/ LabelLevel
    \/ LabelNext

SpecLabel == InitLabel /\ [][NextLabel]_vars

\* ------------------------------------------ claims about level_for_label
\* a and b are the same character up to the case of a letter
SameLetter(a, b) ==
    \/ a = b
    \/ \E i \in 1..Len(LowerCase) : {a, b} = {LowerCase[i], UpperCase[i]}

\* the label l is the word w up to the case of its letters
SpellsWord(l, w) ==
    /\ Len(l) = Len(w)
    /\ \A i \in 1..Len(l) : SameLetter(l[i], w[i])

WeaponWords ==
    { <<"k", "n", "i", "f", "e">>,
      <<"g", "u", "n">>,
      <<"p", "i", "s", "t", "o", "l">>,
      <<"r", "i", "f", "l", "e">>,
      <<"r", "e", "v", "o", "l", "v", "e", "r">>,
      <<"f", "i", "r", "e", "a", "r", "m">> }

\* C21: the level of a detection depends on its label only, whatever the
\* case of its letters: the six weapon words are HIGH, scissors is MEDIUM
\* and every other label, a cls_N label included, is LOW.
C21_LevelFromLabel ==
    lbl_level # "none" =>
        lbl_level = IF \E w \in WeaponWords : SpellsWord(lbl, w) THEN "HIGH"
                    ELSE IF SpellsWord(lbl, LblScissors) THEN "MEDIUM"
                    ELSE "LOW"

\* a weapon word in mixed case has been classified HIGH
C21_Witness ==
    /\ lbl = <<"R", "i", "F", "l", "E">>
    /\ lbl_level = "HIGH"

\* ------------------------- the pipeline with a model that no backend loads
InitPass ==
    /\ InitBuffer(DefaultCapacity)
    /\ InitThreads
    /\ InitPipe
    /\ InitVideo
    /\ InitPublisher
    /\ InitInfer
    /\ InitRest
    /\ InitModels(FALSE, FALSE)
    /\ InitPost
    /\ InitApp
    /\ InitMore
    /\ proc = "edge"

SpecPass == InitPass /\ [][NextP]_vars

NameFiles ==
    { NamesFile(<<LblGun>>),
      NamesFile(<<LblKnife, <<>>, LblPerson>>),
      NamesFile(<<>>) }

\* class indexes a model's output can make the best one
ClassIndexes == {0, 1, 43, 79, 80, 81, 82}

Digits == <<"0", "1", "2", "3", "4", "5", "6", "7", "8", "9">>
\* std::to_string of an int in 0..99
to_string(n) ==
    IF n < 10 THEN <<Digits[n + 1]>>
    ELSE <<Digits[(n \div 10) + 1], Digits[(n % 10) + 1]>>

\* run_opencv, lines 758-760 (run_ort, lines 647-649): the label of class c
ClassLabel(c, names) ==
    IF c >= 0 /\ c < Len(names) THEN names[c + 1]
    ELSE <<"c", "l", "s", "_">> \o to_string(c)

\* what the constructor and the label lookup never touch
NonCtorVars == <<qvars, hvars, pc, arg, ret, nitems, pvars, lvars, proc, vvars, evars, ivars, kvars,
    svars, wvars>>
CtorRest == <<NonCtorVars, lbl, lbl_level, best_cls, use_onnxruntime, names_file,
              with_ort, ort_loads, cv_loads, handed>>

\* the engine under construction
ThisEngine == [use_ort |-> use_ort_, ready |-> ready_, names |-> class_names_]
SetEngine(e) ==
    /\ use_ort_' = e.use_ort
    /\ ready_' = e.ready
    /\ class_names_' = e.names

\* constructor, lines 462-500
CtorOrt ==
    /\ cloc = "ctor_ort"
    /\ SetEngine(CtorOrtStage(ThisEngine, with_ort, ort_loads, names_file))
    /\ cloc' = "ctor_cv"
    /\ UNCHANGED CtorRest

\* constructor, lines 502-517
CtorCv ==
    /\ cloc = "ctor_cv"
    /\ SetEngine(CtorCvStage(ThisEngine, cv_loads, names_file))
    /\ cloc' = "done"
    /\ UNCHANGED CtorRest

\* run on the constructed engine, lines 758-761: a candidate whose best class
\* is c gets its label and its level
CtorLookup ==
    /\ cloc = "done"
    /\ ready_
    /\ \E c \in ClassIndexes :
          /\ best_cls' = c
          /\ lbl' = ClassLabel(c, class_names_)
          /\ lbl_level' = level_for_label(ClassLabel(c, class_names_))
    /\ UNCHANGED <<NonCtorVars, cloc, use_onnxruntime, names_file, class_names_, gvars>>

\* the constructor is entered: member initialisers and lines 446-460; the
\* build, the model file and the class-name file are what they are
InitCtor ==
    /\ InitBuffer(DefaultCapacity)
    /\ InitThreads
    /\ InitPipe
    /\ InitVideo
    /\ InitPublisher
    /\ InitInfer
    /\ proc = "edge"
    /\ lbl = <<>>
    /\ lbl_level = "none"
    /\ best_cls = -1
    /\ cloc = "ctor_ort"
    /\ use_onnxruntime \in BOOLEAN
    /\ names_file \in NameFiles \cup {NoPath, Unreadable}
    /\ with_ort \in BOOLEAN
    /\ ort_loads \in {b \in BOOLEAN : b => with_ort}
    /\ cv_loads \in BOOLEAN
    /\ use_ort_ = CtorStart(use_onnxruntime).use_ort
    /\ ready_ = CtorStart(use_onnxruntime).ready
    /\ class_names_ = CtorStart(use_onnxruntime).names
    /\ handed = <<>>
    /\ InitPost
    /\ InitApp
    /\ InitMore

NextCtor ==
    \/ CtorOrt
    \/ CtorCv
    \/ CtorLookup

SpecCtor == InitCtor /\ [][NextCtor]_vars

\* ------------------------------------- claims about the constructor
\* the preferred backend fails to load the model
PreferredFails ==
    IF use_onnxruntime THEN ~(with_ort /\ ort_loads) ELSE ~cv_loads
\* the other backend loads the model
OtherLoads ==
    IF use_onnxruntime THEN cv_loads ELSE with_ort /\ ort_loads

\* C23: when the preferred backend fails to load the model, the constructor
\* falls back to the other backend: ready() is true if that one loads the
\* model and false only if both fail.
C23_FallsBackToOther ==
    (cloc = "done" /\ PreferredFails) => (ready_ <=> OtherLoads)

\* C24: with a class-name file that can be read, class index i is labelled
\* with the i-th non-empty line of the file, cls_i beyond its end; the
\* built-in table is used only when no file is named.
C24_FileReplacesTable ==
    (cloc = "done" /\ best_cls # -1) =>
        /\ names_file.kind = "file" =>
               lbl = ClassLabel(best_cls, NonEmptyLines(names_file))
        /\ names_file.kind = "nopath" =>
               lbl = ClassLabel(best_cls, BuiltinNames)

\* ------------------------------ PostProcessor::process_frame (SpecPost)
\* bounds: objects, actions and audio flags of a frame
MaxObjs == 2
MaxActs == 1
MaxAuds == 1

\* confidences of objects, of actions and of audio flags: 0, 0.5, 1, and 2 for
\* a score that is not normalised; 0.0624 and 0.0625 for actions
ObjConfs == {0, 5000, 10000, 20000}
ActConfs == {624, 625, 10000}
AudConfs == {10000, 20000}
AudNames == {"raised_voice", "glass_break"}

\* the sequences over S of length at most n
SeqsUpTo(S, n) == UNION {[1..k -> S] : k \in 0..n}

ObjLists == SeqsUpTo({[name |-> "person", conf |-> c] : c \in ObjConfs}, MaxObjs)
ActLists == SeqsUpTo({[name |-> "running", conf |-> c] : c \in ActConfs}, MaxActs)
AudLists == SeqsUpTo({[name |-> n, conf |-> c] : n \in AudNames, c \in AudConfs}, MaxAuds)
ZoneLists == {<<>>, <<"gate">>}

\* risk_med and risk_high as passed to process_frame: 0.05, 0.5, 0.6, 0.8
RiskThresholds == {50000, 500000, 600000, 800000}

\* what process_frame never touches
NonPostVars == <<qvars, hvars, pc, arg, ret, nitems, pvars, lvars, proc, vvars, evars,
                 ivars, xvars, gvars, svars, wvars>>
PostRest == <<NonPostVars, zwriting, thresh, events, uloc, uarg, nupd, applied, fstart>>

\* process_frame, lines 55-57: ev.zones = d_->zones; risk_local = fuse_risk(...)
PostFuse ==
    /\ floc = "fuse"
    /\ ev' = [ev EXCEPT !.zones = zones,
                        !.risk_local = fuse_risk(ev.objects, ev.actions, zones, ev.audio_flags)]
    /\ floc' = "level"
    /\ UNCHANGED <<PostRest, fargs, zones>>

\* process_frame, lines 58-61, with the thresholds of the call
PostLevel ==
    /\ floc = "level"
    /\ \E med \in RiskThresholds, high \in RiskThresholds :
          /\ fargs' = [fargs EXCEPT !.risk_medium = med, !.risk_high = high]
          /\ ev' = [ev EXCEPT !.level_local = level_local_for(ev.risk_local, med, high)]
    /\ floc' = "done"
    /\ UNCHANGED <<PostRest, zones>>

\* process_frame is entered with the signals of a frame in ev
InitPostCall ==
    /\ InitBuffer(DefaultCapacity)
    /\ InitThreads
    /\ InitPipe
    /\ InitVideo
    /\ InitPublisher
    /\ InitInfer
    /\ InitRest
    /\ InitModels(TRUE, TRUE)
    /\ InitApp
    /\ InitMore
    /\ proc = "core"
    /\ \E os \in ObjLists, as \in ActLists, fs \in AudLists :
          ev = [NoEvent EXCEPT !.frame_id = 1, !.objects = os, !.actions = as,
                               !.audio_flags = fs]
    /\ fargs = DefaultThresholds
    /\ floc = "fuse"
    /\ zones \in ZoneLists
    /\ zwriting = FALSE
    /\ thresh = DefaultThresholds
    /\ events = <<>>
    /\ uloc = "idle"
    /\ uarg = NoUpdate
    /\ nupd = 0
    /\ applied = <<>>
    /\ fstart = 0

NextPost ==
    \/ PostFuse
    \/ PostLevel

SpecPost == InitPostCall /\ [][NextPost]_vars

\* ------------------------------------------ claims about process_frame
\* the weighted signals of the event under construction, with the zone floor
Contributions ==
    {ObjWeight * ev.objects[i].conf : i \in 1..Len(ev.objects)}
    \cup {ActWeight * ev.actions[i].conf : i \in 1..Len(ev.actions)}
    \cup {AudWeight * ev.audio_flags[i].conf :
             i \in {j \in 1..Len(ev.audio_flags) : ev.audio_flags[j].name = "raised_voice"}}
    \cup (IF zones # <<>> THEN {ZoneRisk} ELSE {})

\* the largest element of a set of numbers, 0 for the empty set
Largest(S) == IF S = {} THEN 0 ELSE CHOOSE m \in S : \A x \in S : x <= m

\* C25: risk_local is the largest weighted signal (0.7 per object, 0.8 per
\* action, 0.75 per raised_voice flag, 0.5 for a non-empty zone list), at most
\* 1; it is 0 without a signal and always lies in [0, 1].
C25_RiskIsClampedMax ==
    floc \in {"level", "done"} =>
        /\ ev.risk_local = StdMin(RiskOne, Largest(Contributions))
        /\ Contributions = {} => ev.risk_local = 0
        /\ ev.risk_local >= 0
        /\ ev.risk_local <= RiskOne

\* an object with confidence 2 is clamped to risk 1
C25_Witness ==
    /\ floc = "level"
    /\ Len(ev.objects) = 2
    /\ ev.objects[1].conf = 5000
    /\ ev.objects[2].conf = 20000
    /\ ev.risk_local = RiskOne

\* C26: level_local is high from risk_high on, else medium from risk_medium
\* on, else low from 0.05 on, else none, tested in this order, for every risk
\* and every pair of thresholds.
C26_LevelFromThresholds ==
    floc = "done" =>
        /\ ev.level_local \in {"high", "medium", "low", "none"}
        /\ ev.level_local = "high" <=> ev.risk_local >= fargs.risk_high
        /\ ev.level_local = "medium" <=>
               (ev.risk_local < fargs.risk_high /\ ev.risk_local >= fargs.risk_medium)
        /\ ev.level_local = "low" <=>
               /\ ev.risk_local < fargs.risk_high
               /\ ev.risk_local < fargs.risk_medium
               /\ ev.risk_local >= LowRisk
        /\ ev.level_local = "none" <=>
               /\ ev.risk_local < fargs.risk_high
               /\ ev.risk_local < fargs.risk_medium
               /\ ev.risk_local < LowRisk

\* a risk equal to risk_high is high although risk_medium lies above it
C26_Witness ==
    /\ floc = "done"
    /\ fargs.risk_high = 500000
    /\ fargs.risk_medium = 800000
    /\ ev.risk_local = 500000
    /\ ev.level_local = "high"

\* ---------------------------------- VideoPipeline::update_params (SpecUpdate)
\* bound: update_params calls
MaxUpdates == 2

\* the arguments update_params is called with
UpdateArgs ==
    { [th |-> [obj_conf |-> 5000, act_conf |-> 5000, risk_medium |-> 400000, risk_high |-> 450000],
       zones |-> <<"gate">>],
      [th |-> [obj_conf |-> 3000, act_conf |-> 3000, risk_medium |-> 300000, risk_high |-> 900000],
       zones |-> <<"gate", "dock">>] }

\* what update_params leaves alone when it stores an atomic
UpdRest == <<EdgeVars, vvars, ev, fargs, floc, zones, zwriting, events, applied, fstart>>

\* update_params, line 73: d_->obj_thresh.store(th.obj_conf)
UpdCall ==
    /\ proc = "core"
    /\ ~crashed
    /\ uloc = "idle"
    /\ nupd < MaxUpdates
    /\ \E u \in UpdateArgs :
          /\ uarg' = u
          /\ thresh' = [thresh EXCEPT !.obj_conf = u.th.obj_conf]
    /\ nupd' = nupd + 1
    /\ uloc' = "u_act"
    /\ UNCHANGED UpdRest

\* update_params, lines 74-76: the store of act_thresh, risk_med or risk_high
UpdStore(at, a, next) ==
    /\ ~crashed
    /\ uloc = at
    /\ thresh' = [thresh EXCEPT ![a] = uarg.th[a]]
    /\ uloc' = next
    /\ UNCHANGED <<UpdRest, uarg, nupd>>

UpdStoreAct == UpdStore("u_act", "act_conf", "u_med")
UpdStoreMed == UpdStore("u_med", "risk_medium", "u_high")
UpdStoreHigh == UpdStore("u_high", "risk_high", "u_policy")

\* update_params, line 77, update_policy, line 41: the assignment d_->zones =
\* zones begins; no lock is taken
UpdPolicyBegin ==
    /\ ~crashed
    /\ uloc = "u_policy"
    /\ zwriting' = TRUE
    /\ uloc' = "u_write"
    /\ IF th = "v_copy"
       THEN ZonesRace
       ELSE UNCHANGED <<ev, th, crashed>>
    /\ UNCHANGED <<EdgeVarsLive, running, frame_id, vloc, vstarts, vlast_op,
                   fargs, floc, zones, thresh, events, uarg, nupd, applied, fstart>>

\* update_policy, lines 41-42: the assignment ends, keywords are assigned,
\* update_params returns
UpdPolicyEnd ==
    /\ ~crashed
    /\ uloc = "u_write"
    /\ zones' = uarg.zones
    /\ zwriting' = FALSE
    /\ uloc' = "idle"
    /\ applied' = Append(applied, uarg)
    /\ UNCHANGED <<EdgeVars, vvars, ev, fargs, floc, thresh, events, uarg, nupd, fstart>>

NextUpd ==
    \/ UpdCall
    \/ UpdStoreAct
    \/ UpdStoreMed
    \/ UpdStoreHigh
    \/ UpdPolicyBegin
    \/ UpdPolicyEnd

\* the pipeline has been started for the last time: start() has set running
\* and launched the loop thread
InitUpdate ==
    /\ InitBuffer(DefaultCapacity)
    /\ InitThreads
    /\ InitPipe
    /\ running = TRUE
    /\ th = "v_open"
    /\ frame_id = 0
    /\ vloc = "idle"
    /\ vstarts = MaxVideoStarts
    /\ vlast_op = "start"
    /\ InitPublisher
    /\ InitInfer
    /\ InitRest
    /\ InitModels(TRUE, TRUE)
    /\ InitPost
    /\ InitApp
    /\ InitMore
    /\ proc = "core"

NextUpdate ==
    \/ VideoOpen
    \/ VideoReadFail
    \/ VideoFrame
    \/ \E a \in ThresholdNames : VideoLoad(a)
    \/ VideoZonesBegin
    \/ VideoClassify
    \/ VideoPush
    \/ VideoExit
    \/ VideoStopBegin
    \/ VideoJoin
    \/ NextUpd

SpecUpdate == InitUpdate /\ [][NextUpdate]_vars

\* ------------------------------------------ claims about update_params
\* the update_params calls made so far, the one in progress included
CallsMade == applied \o (IF uloc = "idle" THEN <<>> ELSE <<uarg>>)

\* the event was built from a frame read after an update_params call had
\* returned: its thresholds and its zones are those of that call or of a
\* later one, and its level follows from them
UsesNewParams(e) ==
    e.after >= 1 =>
        /\ \A a \in ThresholdNames :
              e.used[a] \in {CallsMade[k].th[a] : k \in e.after..e.upto}
        /\ e.ev.zones \in {CallsMade[k].zones : k \in e.after..e.upto}
        /\ e.ev.level_local =
               level_local_for(IF e.ev.zones # <<>> THEN ZoneRisk ELSE 0,
                               e.used.risk_medium, e.used.risk_high)

\* C27: update_params takes effect without a restart: every frame read after
\* update_params has returned is classified with the new thresholds and the
\* new zone list, the loop thread is not brought down by the update, and the
\* events pushed before are neither pushed again nor changed.
C27_UpdateTakesEffect ==
    /\ [](\A i \in 1..Len(events) : UsesNewParams(events[i]))
    /\ [](th # "v_fault")
    /\ [][\/ events' = events
          \/ /\ Len(events') = Len(events) + 1
             /\ SubSeq(events', 1, Len(events)) = events
             /\ events'[Len(events')].ev.frame_id > Len(events)]_vars

\* ---------------------------------------------------------------------------
\* ServerApp::status (SpecStatus)
\* ---------------------------------------------------------------------------

\* the longest time the clock is followed for
MaxTicks == 3

\* configurations a ServerApp is constructed with
Configs ==
    {DefaultConfig,
     [DefaultConfig EXCEPT !.source = <<"1">>, !.model_path = <<"w">>,
                           !.conf_threshold = 40]}

\* the fields a body of POST /pipeline/start can carry
Bodies ==
    [source : {Unset, Given(<<"2">>)}, yolo_weights : {Unset, Given(<<"n">>)},
     conf : {Unset, Given(60)}]

\* the clock advances
Tick ==
    /\ proc = "edge"
    /\ ~crashed
    /\ now < MaxTicks
    /\ now' = now + 1
    /\ UNCHANGED <<qvars, hvars, pc, arg, ret, nitems, pvars, lvars, proc,
                   vvars, evars, ivars, xvars, gvars, kvars,
                   cfg_, req, active, pipe_started_, st, environ, argv, aloc, wvars>>

\* status(): the running flag, the time since pipe_started_ when running, and
\* cfg_ as args
StatusCall ==
    /\ proc = "edge"
    /\ ~crashed
    /\ st' = [running |-> pipe_running_,
              uptime_sec |-> IF pipe_running_ THEN now - pipe_started_ ELSE 0,
              args |-> cfg_,
              at |-> now]
    /\ UNCHANGED <<qvars, hvars, pc, arg, ret, nitems, pvars, lvars, proc,
                   vvars, evars, ivars, xvars, gvars, kvars,
                   cfg_, req, active, pipe_started_, now, environ, argv, aloc, wvars>>

\* a ServerApp constructed with one of Configs, before a /pipeline/start
\* request whose body is one of Bodies
InitStatus ==
    /\ InitBuffer(DefaultCapacity)
    /\ InitThreads
    /\ InitPipe
    /\ InitVideo
    /\ InitPublisher
    /\ InitInfer
    /\ InitRest
    /\ InitModels(TRUE, TRUE)
    /\ InitPost
    /\ proc = "edge"
    /\ cfg_ \in Configs
    /\ \E body \in Bodies : req = StartArgs(cfg_, body)
    /\ active = StartArgs(cfg_, NoBody)
    /\ pipe_started_ = 0
    /\ now = 0
    /\ st = NoStatus
    /\ environ = [n \in EnvNames |-> Unset]
    /\ argv = <<>>
    /\ aloc = "start"
    /\ InitMore

NextStatus ==
    \/ StartPipeline
    \/ StartPipelineNoop
    \/ StatusCall
    \/ Tick

SpecStatus == InitStatus /\ [][NextStatus]_vars

\* C28: a status() taken while the pipeline runs shows, as args, the source,
\* the model path and the confidence threshold the pipeline was started with,
\* and as uptime the time since that start
C28_StatusShowsActive ==
    (st.at >= 0 /\ st.running) =>
        /\ st.args.source = active.source
        /\ st.args.model_path = active.weights
        /\ st.args.conf_threshold = active.conf
        /\ st.uptime_sec = st.at - pipe_started_

\* ---------------------------------------------------------------------------
\* a forward pass that throws (SpecFault)
\* ---------------------------------------------------------------------------

\* worker loop, line 182, with run_opencv, line 697 (run_ort, line 580): the
\* forward pass throws while run handles a popped frame. Neither run_opencv,
\* run_ort, run nor the worker's thread function has a handler: the exception
\* leaves the thread function and std::terminate ends the process
WrkInferThrows ==
    /\ proc = "edge"
    /\ ~crashed
    /\ loc["wrk"] = "w_got"
    /\ pc["wrk"] = "none"
    /\ ret["wrk"].ok
    /\ ready_
    /\ CapturedFrame(ret["wrk"].item).frame # 0
    /\ loc' = [loc EXCEPT !["wrk"] = "w_thrown"]
    /\ crashed' = TRUE
    /\ UNCHANGED <<qvars, hvars, pc, arg, ret, nitems, pipe_running_, running_, built,
                   cap_joined, wrk_joined, racy, published, nstarts, lvars, ovars>>

NextFault ==
    \/ NextP
    \/ WrkInferThrows

SpecFault == InitP /\ [][NextFault]_vars

\* C29: an exception thrown by the forward pass never leaves the worker's
\* thread function: the worker loop is never ended by it
C29_FaultStaysInStage == loc["wrk"] # "w_thrown"

\* ---------------------------------------------------------------------------
\* parse_args (SpecArgs)
\* ---------------------------------------------------------------------------

\* the most options on a command line
MaxOpts == 2

\* the flags of the command line, as parse_args compares them with arg_eq
OptSource == <<"-", "-", "s", "o", "u", "r", "c", "e">>
OptModel == <<"-", "-", "m", "o", "d", "e", "l">>
OptClassNames == <<"-", "-", "c", "l", "a", "s", "s", "-", "n", "a", "m", "e", "s">>
OptImg == <<"-", "-", "i", "m", "g">>
OptConf == <<"-", "-", "c", "o", "n", "f">>
OptAlerts == <<"-", "-", "a", "l", "e", "r", "t", "s">>
OptNoOverlay == <<"-", "-", "n", "o", "-", "o", "v", "e", "r", "l", "a", "y">>
OptNoOrt == <<"-", "-", "n", "o", "-", "o", "r", "t">>
OptUseOrt == <<"-", "-", "u", "s", "e", "-", "o", "r", "t">>
OptShowWindow == <<"-", "-", "s", "h", "o", "w", "-", "w", "i", "n", "d", "o", "w">>
OptFps == <<"-", "-", "f", "p", "s">>
OptHelp == <<"-", "-", "h", "e", "l", "p">>

IsDigit(c) == \E d \in 1..10 : Digits[d] = c
DigitValue(c) == CHOOSE d \in 0..9 : Digits[d + 1] = c

\* the value of the digits of s from index i on, after acc
RECURSIVE AtoiFrom(_, _, _)
AtoiFrom(s, i, acc) ==
    IF i > Len(s) \/ ~IsDigit(s[i]) THEN acc
    ELSE AtoiFrom(s, i + 1, acc * 10 + DigitValue(s[i]))

\* std::atoi of an unsigned string without leading blanks: the value of its
\* leading digits, 0 when there are none
atoi(s) == AtoiFrom(s, 1, 0)

\* the index of the first character of s from i on that is not a digit
RECURSIVE DigitsEnd(_, _)
DigitsEnd(s, i) ==
    IF i > Len(s) \/ ~IsDigit(s[i]) THEN i ELSE DigitsEnd(s, i + 1)

\* std::atof of an unsigned decimal string, in hundredths: the leading digits
\* and, after a point, the first two digits of the fraction
atof(s) ==
    LET e == DigitsEnd(s, 1)
        frac == IF e <= Len(s) /\ s[e] = "."
                THEN SubSeq(s, e + 1, DigitsEnd(s, e + 1) - 1)
                ELSE <<>>
    IN AtoiFrom(s, 1, 0) * 100 + AtoiFrom(SubSeq(frac \o <<"0", "0">>, 1, 2), 1, 0)

\* parse_args, lines 34-39: the environment overrides
EnvPass(cfg, e) ==
    LET c1 == IF e["VIDEO_SOURCE"].set
              THEN [cfg EXCEPT !.source = e["VIDEO_SOURCE"].val] ELSE cfg
        c2 == IF e["IMG_SIZE"].set
              THEN [c1 EXCEPT !.img_size = atoi(e["IMG_SIZE"].val)] ELSE c1
        c3 == IF e["YOLO_CONF"].set
              THEN [c2 EXCEPT !.conf_threshold = atof(e["YOLO_CONF"].val)] ELSE c2
        c4 == IF e["YOLO_WEIGHTS"].set
              THEN [c3 EXCEPT !.model_path = e["YOLO_WEIGHTS"].val] ELSE c3
        c5 == IF e["ALERTS_JSONL"].set
              THEN [c4 EXCEPT !.alerts_jsonl = e["ALERTS_JSONL"].val] ELSE c4
    IN IF e["FPS"].set THEN [c5 EXCEPT !.target_fps = atoi(e["FPS"].val)] ELSE c5

\* parse_args, lines 41-83: the loop over argv from index i on; args is
\* argv without argv[0]. A flag that takes a value and has none is skipped;
\* --help leaves the process
RECURSIVE ArgLoop(_, _, _)
ArgLoop(cfg, args, i) ==
    IF i > Len(args) THEN [cfg |-> cfg, exited |-> FALSE]
    ELSE LET a == args[i]
             has == i + 1 <= Len(args)
             nx == IF has THEN args[i + 1] ELSE <<>>
         IN IF a = OptSource /\ has
            THEN ArgLoop([cfg EXCEPT !.source = nx], args, i + 2)
            ELSE IF a = OptModel /\ has
            THEN ArgLoop([cfg EXCEPT !.model_path = nx], args, i + 2)
            ELSE IF a = OptClassNames /\ has
            THEN ArgLoop([cfg EXCEPT !.class_names_path = nx], args, i + 2)
            ELSE IF a = OptImg /\ has
            THEN ArgLoop([cfg EXCEPT !.img_size = atoi(nx)], args, i + 2)
            ELSE IF a = OptConf /\ has
            THEN ArgLoop([cfg EXCEPT !.conf_threshold = atof(nx)], args, i + 2)
            ELSE IF a = OptAlerts /\ has
            THEN ArgLoop([cfg EXCEPT !.alerts_jsonl = nx], args, i + 2)
            ELSE IF a = OptNoOverlay
            THEN ArgLoop([cfg EXCEPT !.overlay_enabled = FALSE], args, i + 1)
            ELSE IF a = OptNoOrt
            THEN ArgLoop([cfg EXCEPT !.use_ort = FALSE], args, i + 1)
            ELSE IF a = OptUseOrt
            THEN ArgLoop([cfg EXCEPT !.use_ort = TRUE], args, i + 1)
            ELSE IF a = OptShowWindow
            THEN ArgLoop([cfg EXCEPT !.show_window = TRUE], args, i + 1)
            ELSE IF a = OptFps /\ has
            THEN ArgLoop([cfg EXCEPT !.target_fps = atoi(nx)], args, i + 2)
            ELSE IF a = OptHelp
            THEN [cfg |-> cfg, exited |-> TRUE]
            ELSE ArgLoop(cfg, args, i + 1)

\* a parse_args that applies the environment after the command line
parse_argsEnvLast(e, args) ==
    LET r == ArgLoop(DefaultConfig, args, 1)
    IN [cfg |-> EnvPass(r.cfg, e), exited |-> r.exited]

\* parse_args: the defaults, then the environment, then the command line
parse_args(e, args) == ArgLoop(EnvPass(DefaultConfig, e), args, 1)

\* the value the environments of the model give a variable
EnvValue(n) ==
    CASE n = "VIDEO_SOURCE" -> <<"1">>
      [] n = "IMG_SIZE" -> <<"3", "2", "0">>
      [] n = "YOLO_CONF" -> <<"0", ".", "4">>
      [] n = "YOLO_WEIGHTS" -> <<"w">>
      [] n = "ALERTS_JSONL" -> <<"e">>
      [] n = "FPS" -> <<"1", "5">>

\* the environments: any of the six variables set
Envs == {[n \in EnvNames |-> IF n \in S THEN Given(EnvValue(n)) ELSE Unset] : S \in SUBSET EnvNames}

\* the options of the command lines: a flag with its value, or a flag alone
Opts ==
    {<<OptSource, v>> : v \in {<<"2">>, <<"3">>}}
    \cup {<<OptImg, v>> : v \in {<<"4", "8", "0">>, <<"9", "6">>}}
    \cup {<<OptModel, <<"n">>>>, <<OptClassNames, <<"c">>>>, <<OptConf, <<"0", ".", "6">>>>,
          <<OptAlerts, <<"b">>>>, <<OptFps, <<"3", "0">>>>}
    \cup {<<f>> : f \in {OptNoOverlay, OptNoOrt, OptUseOrt, OptShowWindow, OptHelp}}

\* a flag that ends the command line without its value
Dangling == {<<>>, <<OptSource>>, <<OptFps>>}

RECURSIVE Flatten(_)
Flatten(os) == IF os = <<>> THEN <<>> ELSE Head(os) \o Flatten(Tail(os))

\* the command lines: up to MaxOpts options, then possibly a flag without value
CommandLines == {Flatten(os) \o d : os \in SeqsUpTo(Opts, MaxOpts), d \in Dangling}

\* main: cfg = parse_args(argc, argv)
ParseArgs ==
    /\ proc = "edge"
    /\ aloc = "start"
    /\ LET r == parse_args(environ, argv)
       IN IF r.exited
          THEN aloc' = "exited" /\ UNCHANGED cfg_
          ELSE aloc' = "returned" /\ cfg_' = r.cfg
    /\ UNCHANGED <<qvars, hvars, pc, arg, ret, nitems, pvars, lvars, proc, vvars, evars,
                   ivars, xvars, gvars, kvars,
                   req, active, pipe_started_, now, st, environ, argv, wvars>>

\* a process started with one of Envs and one of CommandLines
InitArgs ==
    /\ InitBuffer(DefaultCapacity)
    /\ InitThreads
    /\ InitPipe
    /\ InitVideo
    /\ InitPublisher
    /\ InitInfer
    /\ InitRest
    /\ InitModels(TRUE, TRUE)
    /\ InitPost
    /\ proc = "edge"
    /\ cfg_ = DefaultConfig
    /\ req = StartArgs(DefaultConfig, NoBody)
    /\ active = StartArgs(DefaultConfig, NoBody)
    /\ pipe_started_ = 0
    /\ now = 0
    /\ st = NoStatus
    /\ environ \in Envs
    /\ argv \in CommandLines
    /\ aloc = "start"
    /\ InitMore

NextArgs == ParseArgs

SpecArgs == InitArgs /\ [][NextArgs]_vars

\* the indexes of argv at which flag f stands with a value after it; a value
\* of CommandLines is never a flag
GivenAt(f) == {i \in 1..(Len(argv) - 1) : argv[i] = f}
\* the value the command line gives flag f: the one after its last occurrence
CliValue(f) == argv[(CHOOSE i \in GivenAt(f) : \A j \in GivenAt(f) : j <= i) + 1]

\* C30: the configuration parse_args returns has, for each of source, model
\* path, image size, confidence threshold, alerts path and target FPS, the
\* value of the command line when the command line gives one, else the value
\* of the environment when the variable is set, else the default
C30_CliThenEnvThenDefault ==
    aloc = "returned" =>
        /\ cfg_.source = IF GivenAt(OptSource) # {} THEN CliValue(OptSource)
                         ELSE IF environ["VIDEO_SOURCE"].set THEN environ["VIDEO_SOURCE"].val
                         ELSE DefaultConfig.source
        /\ cfg_.model_path = IF GivenAt(OptModel) # {} THEN CliValue(OptModel)
                             ELSE IF environ["YOLO_WEIGHTS"].set THEN environ["YOLO_WEIGHTS"].val
                             ELSE DefaultConfig.model_path
        /\ cfg_.img_size = IF GivenAt(OptImg) # {} THEN atoi(CliValue(OptImg))
                           ELSE IF environ["IMG_SIZE"].set THEN atoi(environ["IMG_SIZE"].val)
                           ELSE DefaultConfig.img_size
        /\ cfg_.conf_threshold = IF GivenAt(OptConf) # {} THEN atof(CliValue(OptConf))
                                 ELSE IF environ["YOLO_CONF"].set
                                 THEN atof(environ["YOLO_CONF"].val)
                                 ELSE DefaultConfig.conf_threshold
        /\ cfg_.alerts_jsonl = IF GivenAt(OptAlerts) # {} THEN CliValue(OptAlerts)
                               ELSE IF environ["ALERTS_JSONL"].set
                               THEN environ["ALERTS_JSONL"].val
                               ELSE DefaultConfig.alerts_jsonl
        /\ cfg_.target_fps = IF GivenAt(OptFps) # {} THEN atoi(CliValue(OptFps))
                             ELSE IF environ["FPS"].set THEN atoi(environ["FPS"].val)
                             ELSE DefaultConfig.target_fps

\* parse_args has returned for a command line that gives the image size
\* twice, with IMG_SIZE and VIDEO_SOURCE set and neither FPS nor --fps given:
\* the image size is the last one of the command line, the source the one of
\* the environment, the target FPS the default
C30_Witness ==
    /\ aloc = "returned"
    /\ environ["IMG_SIZE"].set
    /\ argv = <<OptImg, <<"4", "8", "0">>, OptImg, <<"9", "6">>>>
    /\ cfg_.img_size = 96
    /\ environ["VIDEO_SOURCE"].set
    /\ cfg_.source = <<"1">>
    /\ ~environ["FPS"].set
    /\ cfg_.target_fps = 0

\* ---------------------------------------------------------------------------
\* FrameBuffer under fair scheduling (FairSpec)
\* ---------------------------------------------------------------------------

\* the steps thread t takes inside push, pop and stop
QSteps(t) ==
    /\ \/ PushEnter(t)
       \/ PushNotify(t)
       \/ PopEnter(t)
       \/ PopNotify(t)
       \/ StopEnter(t)
       \/ StopNotifyEmpty(t)
       \/ StopNotifyFull(t)
    /\ UNCHANGED <<nitems, pvars, lvars, ovars>>

\* producers and consumers on a queue nobody stops
NextWake ==
    \/ QCallPush
    \/ QCallPop
    \/ QPushEnter
    \/ QPushNotify
    \/ QPopEnter
    \/ QPopNotify
    \/ QSpuriousWake

SpecWake == Init /\ [][NextWake]_vars

\* each OS thread keeps being scheduled; a thread in wait runs again only
\* when it is notified
FairSpecWake ==
    /\ Init
    /\ [][NextWake]_vars
    /\ \A t \in Producers \cup Consumers : WF_vars(QSteps(t))

\* thread t has returned from its push or pop, or only its notify is left
Returning(t) == pc[t] \in {"push_notify", "pop_notify", "none"}

\* C31 as stated: every consumer that is blocked in pop while the queue holds
\* an item returns, and every producer that is blocked in push while the
\* queue has room enqueues its item
C31_BlockedCallerReturns ==
    /\ \A c \in Consumers : (pc[c] = "pop_wait" /\ queue_ # <<>>) ~> Returning(c)
    /\ \A p \in Producers : (pc[p] = "push_wait" /\ PushPred) ~> Returning(p)

\* C31: no wake-up is lost: a consumer does not stay blocked in pop while the
\* queue holds an item (it returns, or other consumers take the items), and a
\* producer does not stay blocked in push while the queue has room (it
\* enqueues its item, or other producers fill the queue)
C31_NoLostWakeup ==
    /\ \A c \in Consumers :
          (pc[c] = "pop_wait" /\ queue_ # <<>>) ~> (Returning(c) \/ queue_ = <<>>)
    /\ \A p \in Producers :
          (pc[p] = "push_wait" /\ PushPred) ~> (Returning(p) \/ ~PushPred)

\* a consumer is blocked in pop, a producer has enqueued an item and has not
\* yet notified
C31_Witness ==
    \E c \in Consumers, p \in Producers :
        pc[c] = "pop_wait" /\ queue_ # <<>> /\ pc[p] = "push_notify"

\* ---------------------------------------------------------------------------
\* ServerApp::stop (SpecStop)
\* ---------------------------------------------------------------------------

\* stop, lines 30-33: lock pipeline_mu_, pipe_running_ = false, unlock
AppStop ==
    /\ proc = "edge"
    /\ ~crashed
    /\ loc["ctl"] = "idle"
    /\ pipe_running_' = FALSE
    /\ racy' = (pipe_running_ /\ built /\ ~WrkDone)
    /\ loc' = [loc EXCEPT !["ctl"] = "as_join_wrk"]
    /\ last_op' = "app_stop"
    /\ UNCHANGED <<qvars, hvars, pc, arg, ret, nitems, running_, built,
                   cap_joined, wrk_joined, published, nstarts, crashed, readfails, ovars>>

\* stop, line 34: if (worker_ && worker_->joinable()) worker_->join();
AppWorkerJoin ==
    /\ ~crashed
    /\ loc["ctl"] = "as_join_wrk"
    /\ IF built
       THEN WrkDone /\ wrk_joined' = TRUE
       ELSE UNCHANGED wrk_joined
    /\ loc' = [loc EXCEPT !["ctl"] = "as_streamer"]
    /\ UNCHANGED <<qvars, hvars, pc, arg, ret, nitems, pipe_running_, running_,
                   built, cap_joined, racy, published, nstarts, crashed, lvars, ovars>>

\* stop, line 36: streamer_.reset() runs ~RtspStreamer, which calls
\* RtspStreamer::stop, lines 22-24
AppStreamerStop ==
    /\ ~crashed
    /\ loc["ctl"] = "as_streamer"
    /\ IF ~built \/ ~running_
       THEN /\ loc' = [loc EXCEPT !["ctl"] = "as_reset"]
            /\ UNCHANGED <<pc, running_>>
       ELSE /\ running_' = FALSE
            /\ pc' = [pc EXCEPT !["ctl"] = "stop_enter"]
            /\ loc' = [loc EXCEPT !["ctl"] = "as_join_cap"]
    /\ UNCHANGED <<qvars, hvars, arg, ret, nitems, pipe_running_, built,
                   cap_joined, wrk_joined, racy, published, nstarts, crashed, lvars, ovars>>

\* RtspStreamer::stop, line 25, inside ~RtspStreamer
AppStreamerJoin ==
    /\ ~crashed
    /\ loc["ctl"] = "as_join_cap"
    /\ pc["ctl"] = "none"
    /\ CapDone
    /\ cap_joined' = TRUE
    /\ loc' = [loc EXCEPT !["ctl"] = "as_reset"]
    /\ UNCHANGED <<qvars, hvars, pc, arg, ret, nitems, pipe_running_, running_,
                   built, wrk_joined, racy, published, nstarts, crashed, lvars, ovars>>

\* stop, lines 36-40: ~std::thread of the capture thread (std::terminate if it
\* was never joined) and the other resets
AppReset ==
    /\ ~crashed
    /\ loc["ctl"] = "as_reset"
    /\ IF built /\ ~cap_joined
       THEN /\ crashed' = TRUE
            /\ UNCHANGED <<loc, built>>
       ELSE /\ built' = FALSE
            /\ loc' = [loc EXCEPT !["ctl"] = "idle", !["cap"] = "off", !["wrk"] = "off"]
            /\ UNCHANGED crashed
    /\ UNCHANGED <<qvars, hvars, pc, arg, ret, nitems, pipe_running_, running_,
                   cap_joined, wrk_joined, racy, published, nstarts, lvars, ovars>>

NextStop ==
    \/ NextP
    \/ AppStop
    \/ AppWorkerJoin
    \/ AppStreamerStop
    \/ AppStreamerJoin
    \/ AppReset

SpecStop == InitP /\ [][NextStop]_vars

\* C32: whenever the control thread is at the join of the worker thread of a
\* built pipeline, the queue has been stopped
C32_QueueStoppedBeforeJoin ==
    (loc["ctl"] \in {"sp_join_wrk", "as_join_wrk"} /\ built) => stopped_

\* ---------------------------------------------------------------------------
\* VideoPipeline::start and stop called from two threads (SpecRace)
\* ---------------------------------------------------------------------------

\* what a call of start or stop leaves alone, apart from running, th, the
\* position of the callers and the life of the process
RaceRest == <<qvars, hvars, pc, arg, ret, nitems, loc, pipe_running_, running_, built,
              cap_joined, wrk_joined, racy, published, nstarts, lvars, proc, evars, ivars,
              xvars, gvars, kvars, svars, params, cand, conf_threshold_, kept,
              frame_id, vloc, vlast_op>>

\* start, line 61: if (d_->running.exchange(true)) return;
RaceStartExchange(c) ==
    /\ proc = "core"
    /\ ~crashed
    /\ vcall[c] = "idle"
    /\ IF running
       THEN UNCHANGED <<running, vcall, vstarts>>
       ELSE /\ vstarts < MaxVideoStarts
            /\ vstarts' = vstarts + 1
            /\ running' = TRUE
            /\ vcall' = [vcall EXCEPT ![c] = "start_spawn"]
    /\ UNCHANGED <<RaceRest, th, crashed>>

\* start, line 62: d_->th = std::thread(...); assigning to a joinable
\* std::thread calls std::terminate
RaceStartSpawn(c) ==
    /\ ~crashed
    /\ vcall[c] = "start_spawn"
    /\ IF th # "none"
       THEN /\ crashed' = TRUE
            /\ UNCHANGED <<th, vcall>>
       ELSE /\ th' = "v_open"
            /\ vcall' = [vcall EXCEPT ![c] = "idle"]
            /\ UNCHANGED crashed
    /\ UNCHANGED <<RaceRest, running, vstarts>>

\* stop, line 66: if (!d_->running.exchange(false)) return;
RaceStopExchange(c) ==
    /\ proc = "core"
    /\ ~crashed
    /\ vcall[c] = "idle"
    /\ IF running
       THEN /\ running' = FALSE
            /\ vcall' = [vcall EXCEPT ![c] = "stop_join"]
       ELSE UNCHANGED <<running, vcall>>
    /\ UNCHANGED <<RaceRest, th, vstarts, crashed>>

\* stop, line 67: if (d_->th.joinable()) d_->th.join();
RaceStopJoin(c) ==
    /\ ~crashed
    /\ vcall[c] = "stop_join"
    /\ th \in {"none", "v_ret"}
    /\ th' = "none"
    /\ vcall' = [vcall EXCEPT ![c] = "idle"]
    /\ UNCHANGED <<RaceRest, running, vstarts, crashed>>

InitRace == InitLife /\ proc = "core"

NextRace ==
    \/ \E c \in VideoCallers : RaceStartExchange(c)
    \/ \E c \in VideoCallers : RaceStartSpawn(c)
    \/ \E c \in VideoCallers : RaceStopExchange(c)
    \/ \E c \in VideoCallers : RaceStopJoin(c)
    \/ VideoOpen
    \/ VideoReadFail
    \/ VideoFrame
    \/ \E a \in ThresholdNames : VideoLoad(a)
    \/ VideoZonesBegin
    \/ VideoClassify
    \/ VideoPush
    \/ VideoExit

SpecRace == InitRace /\ [][NextRace]_vars

\* C33: the process is never ended by a start or stop call, and whenever no
\* start or stop call is in progress and running is false, no loop thread is
\* running or joinable
C33_StoppedMeansJoined ==
    /\ ~crashed
    /\ ((\A c \in VideoCallers : vcall[c] = "idle") /\ ~running) => th = "none"

\* the zone lists and the thresholds a frame can rightly be processed with:
\* the initial ones and those of the update_params calls made so far
ListsGiven == {<<>>} \cup {CallsMade[k].zones : k \in 1..Len(CallsMade)}
SnapshotsGiven == {DefaultThresholds} \cup {CallsMade[k].th : k \in 1..Len(CallsMade)}

\* C34: the zones copied into a FrameEvent are one complete list given to
\* update_params, or the initial list, and the copy never reads a list that
\* is being assigned
C34_ZonesNeverTorn ==
    /\ th # "v_fault"
    /\ th \in {"v_copy", "v_push"} => ev.zones \in ListsGiven
    /\ \A i \in 1..Len(events) : events[i].ev.zones \in ListsGiven

\* C40: the four thresholds a frame is classified with were all stored by the
\* same update_params call, or are all the initial values
C40_ThresholdSnapshot ==
    /\ (th \in {"v_copy", "v_push"}) => fargs \in SnapshotsGiven
    /\ \A i \in 1..Len(events) : events[i].used \in SnapshotsGiven

\* ------------------------------------------------ the lifecycle as a cycle
\* the state of the ServerApp pipeline: stopping while stop_pipeline is between
\* its first and its last line, running while the components exist, stopped
\* otherwise (starting is the inside of start_pipeline, one step of the model)
Phase ==
    IF loc["ctl"] # "idle" THEN "stopping"
    ELSE IF built THEN "running"
    ELSE "stopped"

\* the state of a VideoPipeline
VideoPhase ==
    IF vloc # "idle" THEN "stopping"
    ELSE IF running THEN "running"
    ELSE "stopped"

\* the phase that follows p in the cycle
PhaseAfter(p) ==
    CASE p = "stopped" -> "running"
      [] p = "running" -> "stopping"
      [] p = "stopping" -> "stopped"

\* C35: the lifecycle is the cycle stopped, (starting,) running, stopping,
\* stopped, for ServerApp and for VideoPipeline; a start that follows a returned
\* stop makes a new empty queue that is not stopped and new capture and worker
\* threads (a new loop thread for VideoPipeline) while none of the earlier run
\* is left, so a queue stopped in an earlier run is never the queue of a later
\* one.
C35_LifecycleCycle ==
    /\ [][Phase' # Phase => Phase' = PhaseAfter(Phase)]_vars
    /\ [][VideoPhase' # VideoPhase => VideoPhase' = PhaseAfter(VideoPhase)]_vars
    /\ [][nstarts' # nstarts =>
             /\ Phase = "stopped" /\ Phase' = "running"
             /\ loc["cap"] = "off" /\ loc["wrk"] = "off"
             /\ queue_' = <<>> /\ ~stopped_' /\ enq' = <<>> /\ deq' = <<>>
             /\ pipe_running_' /\ running_'
             /\ loc'["cap"] = "run_open" /\ loc'["wrk"] = "w_check"]_vars
    /\ [][vstarts' # vstarts =>
             /\ VideoPhase = "stopped" /\ VideoPhase' = "running"
             /\ th = "none" /\ th' = "v_open"]_vars

\* the second run of the ServerApp pipeline has just been started, after the
\* stop of the first run has returned
C35_Witness ==
    /\ nstarts = 2
    /\ last_op = "start"
    /\ Phase = "running"
    /\ ~stopped_
    /\ loc["cap"] = "run_open"
    /\ loc["wrk"] = "w_check"

\* ------------------------------------------------ candidate rows (SpecCand)
\* One row of the network output: four box values, then the scores. Scores are
\* in hundredths (the outputs of the network's sigmoid, 0..1), confidences in
\* 1/10000 as everywhere; item(idx) of the code is row[idx + 1].
\* bound: values in a row
MaxDims == 7
\* score values: 0, 0.3, 0.5 and 1
Scores == {0, 30, 50, 100}
\* 1.0f
One == 100
\* conf_threshold values: 0, 0.25 and 0.5
ConfThresholds == {0, 2500, 5000}

\* rows of every length from 5 (a box and one score) to MaxDims, the box at the
\* origin
Rows ==
    UNION {{<<0, 0, 0, 0>> \o sc : sc \in [1..(d - 4) -> Scores]} : d \in 5..MaxDims}

\* std::max(1, dims - 5), lines 607 and 718
classes_of(dims) == IF dims - 5 > 1 THEN dims - 5 ELSE 1

\* (dims >= classes + 5) ? item(4) : 1.0f, lines 627 and 737
objectness_of(row) ==
    IF Len(row) >= classes_of(Len(row)) + 5 THEN row[5] ELSE One

\* faulty variant of class_start_of: class scores are always read from index 4
class_start_four(dims) == 4

\* (dims >= classes + 5) ? 5 : 4, lines 628 and 738
class_start_of(dims) == IF dims >= classes_of(dims) + 5 THEN 5 ELSE 4

RECURSIVE best_from(_, _, _)
\* the loop of lines 629-636 and 739-746 from class c on, b = (best_score,
\* best_cls) so far: a class takes over only with a larger product
best_from(row, c, b) ==
    LET dims == Len(row)
        class_start == class_start_of(dims)
    IN IF ~(c < classes_of(dims) /\ class_start + c < dims)
       THEN b
       ELSE LET conf == objectness_of(row) * row[class_start + c + 1]
            IN best_from(row, c + 1,
                         IF conf > b.best_score
                         THEN [best_score |-> conf, best_cls |-> c]
                         ELSE b)

\* lines 624-638 and 734-749: best_cls = -1, best_score = 0, the loop, then
\* if (best_score < conf_threshold_) continue
candidate(row, thr, backend) ==
    LET b == best_from(row, 0, [best_score |-> 0, best_cls |-> -1])
    IN [seen |-> TRUE,
        by |-> backend,
        emitted |-> ~(b.best_score < thr),
        best_score |-> b.best_score,
        best_cls |-> b.best_cls]

\* InferenceEngine::run_opencv looks at the row
CandOpencv ==
    /\ proc = "edge"
    /\ ~kept.seen
    /\ cand # <<>>
    /\ kept' = candidate(cand, conf_threshold_, "opencv")
    /\ UNCHANGED <<qvars, hvars, pc, arg, ret, nitems, pvars, lvars, proc, vvars, evars,
                   ivars, xvars, gvars, kvars, svars,
                   vcall, params, cand, conf_threshold_>>

\* InferenceEngine::run_ort looks at the row
CandOrt ==
    /\ proc = "edge"
    /\ ~kept.seen
    /\ cand # <<>>
    /\ kept' = candidate(cand, conf_threshold_, "ort")
    /\ UNCHANGED <<qvars, hvars, pc, arg, ret, nitems, pvars, lvars, proc, vvars, evars,
                   ivars, xvars, gvars, kvars, svars,
                   vcall, params, cand, conf_threshold_>>

InitCand ==
    /\ InitBuffer(DefaultCapacity)
    /\ InitThreads
    /\ InitPipe
    /\ InitVideo
    /\ InitPublisher
    /\ InitInfer
    /\ InitRest
    /\ InitModels(TRUE, TRUE)
    /\ InitPost
    /\ InitApp
    /\ proc = "edge"
    /\ vcall = [c \in VideoCallers |-> "idle"]
    /\ params = DefaultParams
    /\ cand \in Rows
    /\ conf_threshold_ \in ConfThresholds
    /\ kept = NoCandidate

NextCand ==
    \/ CandOpencv
    \/ CandOrt

SpecCand == InitCand /\ [][NextCand]_vars

\* C36: for a candidate row the confidence is objectness times the largest
\* class score, objectness from index 4 and class scores from index 5 on when
\* dims >= classes + 5 (classes = max(1, dims - 5)), objectness 1 and class
\* scores from index 4 on otherwise; the detection is emitted exactly when that
\* confidence is at least conf_threshold.
C36_CandidateConfidence ==
    kept.seen =>
        LET dims == Len(cand)
            classes == IF dims - 5 >= 1 THEN dims - 5 ELSE 1
            explicit == dims >= classes + 5
            objectness == IF explicit THEN cand[4 + 1] ELSE One
            first == IF explicit THEN 5 ELSE 4
            confidence == objectness * Largest({cand[i + 1] : i \in first..(dims - 1)})
        IN /\ kept.best_score = confidence
           /\ kept.emitted <=> (confidence >= conf_threshold_)

\* a row with objectness 0.5 and two classes, the second with the larger score
\* 0.5: the confidence 0.25 meets conf_threshold 0.25 exactly and is emitted
C36_Witness ==
    /\ kept.seen
    /\ Len(cand) = 7
    /\ cand[5] = 50
    /\ cand[6] = 30
    /\ cand[7] = 50
    /\ conf_threshold_ = 2500
    /\ kept.by = "ort"
    /\ kept.emitted
    /\ kept.best_cls = 1

\* ------------------------------------------------ overlay drawing (SpecOverlay)
\* run_opencv, lines 784-787 (run_ort, lines 674-677): cv::rectangle, the
\* caption string or cv::putText throws while the box of a detection is drawn.
\* These calls are outside overlay_safe and no handler encloses them in
\* run_opencv, run_ort, run or the worker's thread function: the exception
\* leaves run() and the thread function, and std::terminate ends the process
WrkDrawThrows ==
    /\ proc = "edge"
    /\ ~crashed
    /\ loc["wrk"] = "w_got"
    /\ pc["wrk"] = "none"
    /\ ret["wrk"].ok
    /\ cfg_.overlay_enabled
    /\ run(CapturedFrame(ret["wrk"].item)).dets # <<>>
    /\ loc' = [loc EXCEPT !["wrk"] = "w_draw_thrown"]
    /\ crashed' = TRUE
    /\ UNCHANGED <<qvars, hvars, pc, arg, ret, nitems, pipe_running_, running_, built,
                   cap_joined, wrk_joined, racy, published, nstarts, lvars, ovars>>

\* run_opencv, lines 789-791, with overlay_safe, lines 419-432: drawing the
\* banner of a HIGH frame throws inside overlay_safe; its catch (...) returns a
\* copy of the frame it was given, and run returns dets and frame_level as
\* without the failure (the pixels of the frame are not part of the model)
WrkBannerThrows ==
    /\ proc = "edge"
    /\ cfg_.overlay_enabled
    /\ ret["wrk"].ok
    /\ run(CapturedFrame(ret["wrk"].item)).frame_level = "HIGH"
    /\ WrkProcess

NextOverlay ==
    \/ NextP
    \/ WrkDrawThrows
    \/ WrkBannerThrows

SpecOverlay == InitP /\ [][NextOverlay]_vars

\* C37: a failure while the overlay is drawn (boxes, captions or the banner)
\* never leaves run(): the worker is never ended by one while it draws the box
\* or the caption of a detection
C37_OverlayFailureContained == loc["wrk"] # "w_draw_thrown"

\* ------------------------------------------------ status of a pipeline whose
\* threads have ended (SpecAlive)
NextAlive ==
    \/ NextP
    \/ StatusCall

SpecAlive == InitP /\ [][NextAlive]_vars

\* the capture thread gave up at a failed open and the worker has left its loop
ThreadsGaveUp == loc["cap"] = "run_failed" /\ CapDone /\ WrkDone

\* C38: status().running is true only while the threads of the pipeline are
\* alive: a status() called after the capture thread gave up at a failed open
\* and the worker left its loop reports running = false.
C38_RunningMeansAlive ==
    [][(st' # st /\ ThreadsGaveUp) => ~st'.running]_vars

\* ------------------------------------------------ the CameraParams a
\* VideoPipeline is constructed with (SpecParams)
\* CameraParams with thresholds and zones that are not the defaults
SiteParams ==
    [thresholds |-> [obj_conf |-> 4000, act_conf |-> 4000,
                     risk_medium |-> 300000, risk_high |-> 400000],
     zones |-> <<"yard">>]

\* VideoPipeline(p), lines 26-27 and 57, then start(): Impl keeps p in params
\* and hands it to post and events; the four atomics keep the initial values of
\* lines 21-24 and PostProcessor::Impl::zones stays empty, whatever p holds
InitParams ==
    /\ InitBuffer(DefaultCapacity)
    /\ InitThreads
    /\ InitPipe
    /\ running = TRUE
    /\ th = "v_open"
    /\ frame_id = 0
    /\ vloc = "idle"
    /\ vstarts = MaxVideoStarts
    /\ vlast_op = "start"
    /\ InitPublisher
    /\ InitInfer
    /\ InitRest
    /\ InitModels(TRUE, TRUE)
    /\ InitPost
    /\ InitApp
    /\ vcall = [c \in VideoCallers |-> "idle"]
    /\ params \in {DefaultParams, SiteParams}
    /\ cand = <<>>
    /\ conf_threshold_ = 2500
    /\ kept = NoCandidate
    /\ proc = "core"

SpecParams == InitParams /\ [][NextUpdate]_vars

\* C39: an event pushed before the first update_params call was classified with
\* the thresholds and carries the zone list of the CameraParams the pipeline
\* was constructed with.
C39_ConstructedParamsUsed ==
    \A i \in 1..Len(events) :
        events[i].upto = 0 =>
            /\ events[i].used = params.thresholds
            /\ events[i].ev.zones = params.zones

====
